---- MODULE Spec2Model ----
(***************************************************************************)
(* A model of the constitution engine (policy enforcement engine) of       *)
(* src/constitution: the rule evaluators, the clause evaluator, the        *)
(* decision engine with its query store, and the audit log.                *)
(*                                                                         *)
(* Texts are sequences of one-character strings.  Scores are exact         *)
(* rationals <<numerator, denominator>> in lowest terms.  Optional values  *)
(* are None (the empty sequence) or Some(x) (a one-element sequence).      *)
(* Timestamps (datetime.now()) are left out of results and audit records.  *)
(***************************************************************************)
EXTENDS Integers, Sequences, FiniteSets, TLC

VARIABLES
    config,         \* ConstitutionEngine.config / ConstitutionParser.config
    rule_cache,     \* RuleEvaluator.rule_cache
    query_history,  \* ConstitutionEngine.query_history
    audit_logs,     \* ConstitutionEngine.audit_logs
    env,            \* the caller's side: the policy files and the texts of a run
    ret,            \* what the last check or correction call returned or raised
    calls           \* the check calls in flight, by thread, when calls run concurrently

vars == <<config, rule_cache, query_history, audit_logs, env, ret, calls>>

-----------------------------------------------------------------------------
(* Optional values and general helpers *)

None == <<>>

Some(x) == <<x>>

IsSome(o) == Len(o) = 1

Get(d, key, default) == IF key \in DOMAIN d THEN d[key] ELSE default

Range(s) == {s[i] : i \in 1..Len(s)}

RECURSIVE Gcd(_, _)
Gcd(a, b) == IF b = 0 THEN a ELSE Gcd(b, a % b)

Abs(n) == IF n < 0 THEN -n ELSE n

\* the rational n/d (d > 0) in lowest terms
Rat(n, d) ==
    LET g == Gcd(Abs(n), d) IN
    IF n = 0 THEN <<0, 1>> ELSE <<n \div g, d \div g>>

RAdd(x, y) == Rat(x[1] * y[2] + y[1] * x[2], x[2] * y[2])

RMul(x, y) == Rat(x[1] * y[1], x[2] * y[2])

RDivInt(x, n) == Rat(x[1], x[2] * n)

RGeq(x, y) == x[1] * y[2] >= y[1] * x[2]

RGt(x, y) == x[1] * y[2] > y[1] * x[2]

RECURSIVE RSum(_)
RSum(s) == IF s = <<>> THEN <<0, 1>> ELSE RAdd(Head(s), RSum(Tail(s)))

-----------------------------------------------------------------------------
(* Strings *)

\* str.lower() on one character
LowerChar(c) ==
    CASE c = "A" -> "a"
      [] c = "B" -> "b"
      [] c = "C" -> "c"
      [] OTHER -> c

Lower(s) == [i \in 1..Len(s) |-> LowerChar(s[i])]

\* Python's "needle in text" on strings
Contains(text, needle) ==
    \E i \in 0..(Len(text) - Len(needle)) :
        \A j \in 1..Len(needle) : text[i + j] = needle[j]

IsPrefix(p, s) == Len(p) <= Len(s) /\ SubSeq(s, 1, Len(p)) = p

\* the number of non-overlapping matches of a literal pattern, scanning from
\* position i (re.finditer); an empty pattern matches at every position
RECURSIVE CountMatches(_, _, _)
CountMatches(text, lit, i) ==
    IF i + Len(lit) - 1 > Len(text) THEN 0
    ELSE IF lit = <<>> THEN Len(text) - i + 2
    ELSE IF SubSeq(text, i, i + Len(lit) - 1) = lit
         THEN 1 + CountMatches(text, lit, i + Len(lit))
         ELSE CountMatches(text, lit, i + 1)

\* str.split() on whitespace, as the set of words
RECURSIVE SplitWords(_, _, _)
SplitWords(text, i, cur) ==
    IF i > Len(text) THEN (IF cur = <<>> THEN {} ELSE {cur})
    ELSE IF text[i] \in {" ", "\n"}
         THEN (IF cur = <<>> THEN {} ELSE {cur}) \cup SplitWords(text, i + 1, <<>>)
         ELSE SplitWords(text, i + 1, Append(cur, text[i]))

-----------------------------------------------------------------------------
(* Detection rules: detection_rules.py *)

\* BaseDetectionRule._create_result
CreateResult(rule, passed, message) ==
    [rule_id |-> rule.rule_id,
     rule_type |-> rule.rule_type,
     passed |-> passed,
     score |-> RMul(IF passed THEN <<1, 1>> ELSE <<0, 1>>, rule.weight),
     message |-> message]

\* KeywordDetectionRule.__init__
KeywordRule(rc) ==
    LET cs == Get(rc.config, "case_sensitive", FALSE)
        kws == Get(rc.config, "keywords", <<>>)
        pro == Get(rc.config, "prohibited_keywords", <<>>)
    IN [rule_id |-> rc.rule_id,
        rule_type |-> "keyword_check",
        weight |-> rc.weight,
        keywords |-> IF cs THEN kws ELSE [i \in 1..Len(kws) |-> Lower(kws[i])],
        prohibited_keywords |->
            IF cs THEN pro ELSE [i \in 1..Len(pro) |-> Lower(pro[i])],
        match_mode |-> Get(rc.config, "match_mode", "any"),
        required_count |-> Get(rc.config, "required_count", 1),
        case_sensitive |-> cs]

\* _check_match_passed without the test of the prohibited keywords
CheckMatchPassedByModeOnly(rule, n_found, n_prohibited) ==
    CASE rule.match_mode = "any" -> n_found >= rule.required_count
      [] rule.match_mode = "all" -> n_found >= Len(rule.keywords)
      [] rule.match_mode = "none" -> n_found = 0
      [] OTHER -> FALSE

\* KeywordDetectionRule._check_match_passed, on the numbers of found keywords
CheckMatchPassed(rule, n_found, n_prohibited) ==
    IF n_prohibited > 0 THEN FALSE
    ELSE CASE rule.match_mode = "any" -> n_found >= rule.required_count
           [] rule.match_mode = "all" -> n_found >= Len(rule.keywords)
           [] rule.match_mode = "none" -> n_found = 0
           [] OTHER -> FALSE

\* KeywordDetectionRule._generate_message
KeywordMessage(rule, n_found, n_prohibited) ==
    IF n_prohibited > 0 THEN "prohibited keyword found"
    ELSE IF rule.match_mode = "any" /\ n_found < rule.required_count
         THEN "too few keywords"
    ELSE IF rule.match_mode = "all" /\ n_found < Len(rule.keywords)
         THEN "keywords missing"
    ELSE "keyword check passed"

\* KeywordDetectionRule.evaluate
KeywordEvaluate(rule, text) ==
    LET text_to_check == IF rule.case_sensitive THEN text ELSE Lower(text)
        found(kws) == Cardinality({i \in 1..Len(kws) : Contains(text_to_check, kws[i])})
        n_found == found(rule.keywords)
        n_prohibited == found(rule.prohibited_keywords)
    IN CreateResult(rule, CheckMatchPassed(rule, n_found, n_prohibited),
                    KeywordMessage(rule, n_found, n_prohibited))

\* re.compile on the patterns of the model: literal characters, where an
\* unbalanced "(" makes the pattern invalid
Compiles(pattern) == \A i \in 1..Len(pattern) : pattern[i] # "("

\* RegexDetectionRule.__init__
RegexRule(rc) ==
    LET pattern == Get(rc.config, "pattern", <<>>) IN
    [rule_id |-> rc.rule_id,
     rule_type |-> "regex_check",
     weight |-> rc.weight,
     pattern |-> pattern,
     required |-> Get(rc.config, "required", TRUE),
     compiled |-> Compiles(pattern)]

\* RegexDetectionRule.evaluate
RegexEvaluate(rule, text) ==
    IF ~rule.compiled
    THEN CreateResult(rule, FALSE, "regex configuration error")
    ELSE LET match_count == CountMatches(text, rule.pattern, 1) IN
         IF rule.required
         THEN CreateResult(rule, match_count > 0,
                           IF match_count > 0 THEN "matches found" ELSE "no match")
         ELSE CreateResult(rule, match_count = 0,
                           IF match_count = 0 THEN "no match (passed)"
                           ELSE "matched but must not")

\* SemanticDetectionRule.__init__
SemanticRule(rc) ==
    [rule_id |-> rc.rule_id,
     rule_type |-> "semantic_check",
     weight |-> rc.weight,
     reference_texts |-> Get(rc.config, "reference_texts", <<>>),
     threshold |-> Get(rc.config, "threshold", <<4, 5>>)]

\* SemanticDetectionRule._jaccard_similarity
JaccardSimilarity(text1, text2) ==
    LET words1 == SplitWords(Lower(text1), 1, <<>>)
        words2 == SplitWords(Lower(text2), 1, <<>>)
    IN IF words1 = {} /\ words2 = {} THEN <<1, 1>>
       ELSE Rat(Cardinality(words1 \cap words2), Cardinality(words1 \cup words2))

\* the loop of SemanticDetectionRule.evaluate: the maximum similarity
RECURSIVE BestSimilarity(_, _, _)
BestSimilarity(text, refs, best) ==
    IF refs = <<>> THEN best
    ELSE LET similarity == JaccardSimilarity(text, Head(refs)) IN
         BestSimilarity(text, Tail(refs),
                        IF RGt(similarity, best) THEN similarity ELSE best)

\* SemanticDetectionRule.evaluate
SemanticEvaluate(rule, text) ==
    IF rule.reference_texts = <<>>
    THEN CreateResult(rule, TRUE, "no reference texts")
    ELSE CreateResult(rule,
                      RGeq(BestSimilarity(text, rule.reference_texts, <<0, 1>>),
                           rule.threshold),
                      "semantic similarity")

\* LLMJudgeDetectionRule.__init__
LLMJudgeRule(rc) ==
    [rule_id |-> rc.rule_id,
     rule_type |-> "llm_judge",
     weight |-> rc.weight,
     judge_prompt |-> Get(rc.config, "judge_prompt", <<>>),
     expected_response |-> Get(rc.config, "expected_response", <<"y">>)]

\* LLMJudgeDetectionRule.evaluate: passes with or without a prompt
LLMJudgeEvaluate(rule, text) ==
    IF rule.judge_prompt = <<>>
    THEN CreateResult(rule, TRUE, "no judge prompt")
    ELSE CreateResult(rule, TRUE, "llm check not implemented")

\* CompositeDetectionRule.__init__: sub_rules starts empty
CompositeRule(rc) ==
    [rule_id |-> rc.rule_id,
     rule_type |-> "composite",
     weight |-> rc.weight,
     rules |-> Get(rc.config, "rules", <<>>),
     operator |-> Get(rc.config, "operator", "AND"),
     sub_rules |-> <<>>]

\* DetectionRuleFactory.create_rule
CreateRule(rc) ==
    CASE rc.rule_type = "keyword_check" -> KeywordRule(rc)
      [] rc.rule_type = "regex_check" -> RegexRule(rc)
      [] rc.rule_type = "semantic_check" -> SemanticRule(rc)
      [] rc.rule_type = "composite" -> CompositeRule(rc)
      [] rc.rule_type = "llm_judge" -> LLMJudgeRule(rc)

RECURSIVE EvaluateRule(_, _)
\* CompositeDetectionRule.evaluate
CompositeEvaluate(rule, text) ==
    IF rule.sub_rules = <<>>
    THEN CreateResult(rule, TRUE, "no sub rules")
    ELSE LET results == [i \in 1..Len(rule.sub_rules) |->
                             EvaluateRule(rule.sub_rules[i], text)]
             all_passed == \A i \in 1..Len(results) : results[i].passed
             any_passed == \E i \in 1..Len(results) : results[i].passed
             passed == IF rule.operator = "OR" THEN any_passed ELSE all_passed
             avg_score == RDivInt(RSum([i \in 1..Len(results) |-> results[i].score]),
                                  Len(results))
         IN [CreateResult(rule, passed, "composite check")
                EXCEPT !.score = RMul(avg_score, rule.weight)]

\* rule.evaluate(context): dispatch on the class of the rule object
EvaluateRule(rule, text) ==
    CASE rule.rule_type = "keyword_check" -> KeywordEvaluate(rule, text)
      [] rule.rule_type = "regex_check" -> RegexEvaluate(rule, text)
      [] rule.rule_type = "semantic_check" -> SemanticEvaluate(rule, text)
      [] rule.rule_type = "composite" -> CompositeEvaluate(rule, text)
      [] rule.rule_type = "llm_judge" -> LLMJudgeEvaluate(rule, text)

-----------------------------------------------------------------------------
(* Clause evaluation: rule_evaluator.py *)

\* a dict in insertion order: a sequence of [key, value] entries
DictKeys(d) == {d[i].key : i \in 1..Len(d)}

\* d[k] = v: an existing key keeps its position
DictSet(d, k, v) ==
    IF k \in DictKeys(d)
    THEN [i \in 1..Len(d) |-> IF d[i].key = k THEN [key |-> k, value |-> v] ELSE d[i]]
    ELSE Append(d, [key |-> k, value |-> v])

\* the key f"{rule_id}_{rule_type}" of RuleEvaluator._get_or_create_rule
CacheKey(rc) == <<rc.rule_id, rc.rule_type>>

\* RuleEvaluator._get_or_create_rule: the rule and the cache after the call
GetOrCreateRule(cache, rc) ==
    IF CacheKey(rc) \in DOMAIN cache
    THEN [rule |-> cache[CacheKey(rc)], cache |-> cache]
    ELSE [rule |-> CreateRule(rc), cache |-> (CacheKey(rc) :> CreateRule(rc)) @@ cache]

\* the loop of evaluate_clause that collects the enabled rules
RECURSIVE RulesToEvaluate(_, _, _)
RulesToEvaluate(cache, rule_configs, acc) ==
    IF rule_configs = <<>> THEN [rules |-> acc, cache |-> cache]
    ELSE IF Head(rule_configs).enabled
         THEN LET got == GetOrCreateRule(cache, Head(rule_configs)) IN
              RulesToEvaluate(got.cache, Tail(rule_configs), Append(acc, got.rule))
         ELSE RulesToEvaluate(cache, Tail(rule_configs), acc)

\* a skipped result with the score 0
CreateSkippedResultZero(clause) ==
    [clause_id |-> clause.id,
     clause_name |-> clause.name,
     overall_passed |-> TRUE,
     score |-> <<0, 1>>,
     failed_rules |-> <<>>,
     passed_rules |-> <<>>,
     violation_level |-> "none",
     suggested_actions |-> <<>>,
     details |-> <<>>]

\* RuleEvaluator._create_skipped_result
CreateSkippedResult(clause) ==
    [clause_id |-> clause.id,
     clause_name |-> clause.name,
     overall_passed |-> TRUE,
     score |-> <<1, 1>>,
     failed_rules |-> <<>>,
     passed_rules |-> <<>>,
     violation_level |-> "none",
     suggested_actions |-> <<>>,
     details |-> <<>>]

\* an overall_passed decision whose recommended threshold is strict (> 70%)
OverallPassedStrict(level, failed_count, passed_count, rule_count) ==
    CASE level = "required" -> failed_count = 0
      [] level = "recommended" -> 10 * passed_count > 7 * rule_count
      [] OTHER -> TRUE

\* the overall_passed decision of evaluate_clause
\* (passed_count >= rule_count * 0.7 is exact for the rule counts of the model)
OverallPassed(level, failed_count, passed_count, rule_count) ==
    CASE level = "required" -> failed_count = 0
      [] level = "recommended" -> 10 * passed_count >= 7 * rule_count
      [] OTHER -> TRUE

\* a violation level whose thresholds are strict (ratio > 0.5, > 0.3, > 0.7)
DetermineViolationLevelStrict(clause, failed_count, total_rules) ==
    IF failed_count = 0 THEN "none"
    ELSE CASE clause.enforcement.level = "required" ->
                  IF 2 * failed_count > total_rules THEN "high"
                  ELSE IF 10 * failed_count > 3 * total_rules THEN "medium"
                  ELSE "low"
           [] clause.enforcement.level = "recommended" ->
                  IF 10 * failed_count > 7 * total_rules THEN "medium" ELSE "low"
           [] OTHER -> "low"

\* RuleEvaluator._determine_violation_level
DetermineViolationLevel(clause, failed_count, total_rules) ==
    IF failed_count = 0 THEN "none"
    ELSE CASE clause.enforcement.level = "required" ->
                  IF 2 * failed_count >= total_rules THEN "high"
                  ELSE IF 10 * failed_count >= 3 * total_rules THEN "medium"
                  ELSE "low"
           [] clause.enforcement.level = "recommended" ->
                  IF 10 * failed_count >= 7 * total_rules THEN "medium" ELSE "low"
           [] OTHER -> "low"

\* severity_mapping of _get_suggested_actions
SeverityMapping(violation_level) ==
    CASE violation_level = "high" -> {"reject", "log_audit"}
      [] violation_level = "medium" -> {"warn", "append_warning", "log_audit"}
      [] violation_level = "low" -> {"append_warning", "suggest_tool"}
      [] OTHER -> {}

\* RuleEvaluator._get_suggested_actions
GetSuggestedActions(clause, overall_passed, violation_level) ==
    IF overall_passed THEN <<>>
    ELSE LET allowed(ac) == ac.action \in SeverityMapping(violation_level)
             kept == SelectSeq(clause.enforcement.violation_actions, allowed)
         IN [i \in 1..Len(kept) |-> kept[i].action]

\* evaluate_clause from the collected rules on: the ClauseCheckResult
ClauseResult(clause, rules, text) ==
    LET all_results == [i \in 1..Len(rules) |-> EvaluateRule(rules[i], text)]
        HasPassed(r) == r.passed
        HasFailed(r) == ~r.passed
        passed_results == SelectSeq(all_results, HasPassed)
        failed_results == SelectSeq(all_results, HasFailed)
        rule_count == Len(rules)
        total_score == RSum([i \in 1..Len(passed_results) |-> passed_results[i].score])
        overall_passed == OverallPassed(clause.enforcement.level, Len(failed_results),
                                        Len(passed_results), rule_count)
        violation_level == DetermineViolationLevel(clause, Len(failed_results), rule_count)
    IN [clause_id |-> clause.id,
        clause_name |-> clause.name,
        overall_passed |-> overall_passed,
        score |-> RDivInt(total_score, rule_count),
        failed_rules |-> [i \in 1..Len(failed_results) |-> failed_results[i].rule_id],
        passed_rules |-> [i \in 1..Len(passed_results) |-> passed_results[i].rule_id],
        violation_level |-> violation_level,
        suggested_actions |-> GetSuggestedActions(clause, overall_passed, violation_level),
        details |-> all_results]

\* RuleEvaluator.evaluate_clause: the result and the rule cache after the call
EvaluateClause(cache, clause, text, check_type) ==
    IF check_type = "pre_check" /\ ~clause.enforcement.pre_check
    THEN [result |-> CreateSkippedResult(clause), cache |-> cache]
    ELSE IF check_type = "post_check" /\ ~clause.enforcement.post_check
    THEN [result |-> CreateSkippedResult(clause), cache |-> cache]
    ELSE LET got == RulesToEvaluate(cache, clause.detection_rules, <<>>) IN
         IF got.rules = <<>>
         THEN [result |-> CreateSkippedResult(clause), cache |-> got.cache]
         ELSE [result |-> ClauseResult(clause, got.rules, text), cache |-> got.cache]

\* RuleEvaluator.batch_evaluate: the results dict keyed by clause id, the rule
\* cache after the call, and (evals) every evaluate_clause call in the order
\* of the calls: the clause and the result it got
RECURSIVE BatchEvaluate(_, _, _, _, _)
BatchEvaluate(cache, clauses, text, check_type, acc) ==
    IF clauses = <<>> THEN [results |-> acc.results, evals |-> acc.evals, cache |-> cache]
    ELSE LET got == EvaluateClause(cache, Head(clauses), text, check_type) IN
         BatchEvaluate(got.cache, Tail(clauses), text, check_type,
                       [results |-> DictSet(acc.results, Head(clauses).id, got.result),
                        evals |-> Append(acc.evals, [clause |-> Head(clauses),
                                                     result |-> got.result])])

\* a configuration value of another type than str where the code expects a
\* string (an integer in the YAML source)
NotAString == <<"<int>">>

IsString(value) == \A i \in 1..Len(value) : value[i] # "<int>"

\* the constructor of the rule raises: KeywordDetectionRule.__init__ calls
\* k.lower() on every keyword unless the rule is case sensitive, and
\* RegexDetectionRule.__init__ catches re.error only, not the TypeError of
\* re.compile on a pattern that is no string
ConstructionRaises(rc) ==
    CASE rc.rule_type = "keyword_check" ->
             /\ ~Get(rc.config, "case_sensitive", FALSE)
             /\ \E key \in {"keywords", "prohibited_keywords"} :
                   \E i \in DOMAIN Get(rc.config, key, <<>>) : ~IsString(rc.config[key][i])
      [] rc.rule_type = "regex_check" -> ~IsString(Get(rc.config, "pattern", <<>>))
      [] OTHER -> FALSE

\* evaluate of the rule raises: "keyword in text" with a keyword that is no
\* string
EvaluationRaises(rule) ==
    /\ rule.rule_type = "keyword_check"
    /\ \/ \E i \in DOMAIN rule.keywords : ~IsString(rule.keywords[i])
       \/ \E i \in DOMAIN rule.prohibited_keywords : ~IsString(rule.prohibited_keywords[i])

\* the loop of evaluate_clause that collects the enabled rules, up to the
\* first constructor that raises: whether one did, and the rule cache then
RECURSIVE CollectFailure(_, _)
CollectFailure(cache, rule_configs) ==
    IF rule_configs = <<>> THEN [raised |-> FALSE, cache |-> cache]
    ELSE IF ~Head(rule_configs).enabled \/ CacheKey(Head(rule_configs)) \in DOMAIN cache
    THEN CollectFailure(cache, Tail(rule_configs))
    ELSE IF ConstructionRaises(Head(rule_configs))
    THEN [raised |-> TRUE, cache |-> cache]
    ELSE CollectFailure(GetOrCreateRule(cache, Head(rule_configs)).cache, Tail(rule_configs))

\* evaluate_clause has no exception handler: whether it raises, and the rule
\* cache it leaves
ClauseFailure(cache, clause, check_type) ==
    IF \/ check_type = "pre_check" /\ ~clause.enforcement.pre_check
       \/ check_type = "post_check" /\ ~clause.enforcement.post_check
    THEN [raised |-> FALSE, cache |-> cache]
    ELSE LET got == CollectFailure(cache, clause.detection_rules) IN
         IF got.raised THEN got
         ELSE [raised |-> \E i \in DOMAIN clause.detection_rules :
                              /\ clause.detection_rules[i].enabled
                              /\ EvaluationRaises(got.cache[CacheKey(clause.detection_rules[i])]),
               cache |-> got.cache]

\* batch_evaluate has no exception handler either: the first clause that
\* raises ends the loop
RECURSIVE BatchFailure(_, _, _)
BatchFailure(cache, clauses, check_type) ==
    IF clauses = <<>> THEN [raised |-> FALSE, cache |-> cache]
    ELSE LET got == ClauseFailure(cache, Head(clauses), check_type) IN
         IF got.raised THEN got ELSE BatchFailure(got.cache, Tail(clauses), check_type)

\* the order of the level strings under Python's string comparison
LevelKey(level) == IF level = "medium" THEN 2 ELSE IF level = "low" THEN 1 ELSE 0

\* sorted(high_risk, key=lambda x: x[1], reverse=True): a stable sort, largest
\* key first
SortedByLevelReverse(high_risk) ==
    LET OfKey(k) == LET Is(x) == LevelKey(x[2]) = k IN SelectSeq(high_risk, Is)
    IN OfKey(2) \o OfKey(1) \o OfKey(0)

\* RuleEvaluator.get_high_risk_clauses: <<clause_id, violation_level>> pairs
GetHighRiskClauses(results) ==
    LET IsHighRisk(e) == e.value.violation_level \in {"high", "medium"}
        kept == SelectSeq(results, IsHighRisk)
    IN SortedByLevelReverse([i \in 1..Len(kept) |->
                                 <<kept[i].key, kept[i].value.violation_level>>])

-----------------------------------------------------------------------------
(* The parser's look-ups: constitution_parser.py *)

\* ConstitutionParser.get_clause_by_id: the first clause with the id, or None
GetClauseById(cfg, clause_id) ==
    LET hits == {i \in 1..Len(cfg.clauses) : cfg.clauses[i].id = clause_id} IN
    IF hits = {} THEN None
    ELSE Some(cfg.clauses[CHOOSE i \in hits : \A j \in hits : i <= j])

\* ConstitutionParser.get_clauses_with_pre_check
GetClausesWithPreCheck(cfg) ==
    LET Pre(c) == c.enforcement.pre_check IN SelectSeq(cfg.clauses, Pre)

\* ConstitutionParser.get_clauses_with_post_check
GetClausesWithPostCheck(cfg) ==
    LET Post(c) == c.enforcement.post_check IN SelectSeq(cfg.clauses, Post)

-----------------------------------------------------------------------------
(* The decision engine: constitution_engine.py *)

\* "sep".join(strings) as a sequence of tokens
RECURSIVE Join(_)
Join(strings) ==
    IF strings = <<>> THEN <<>>
    ELSE IF Len(strings) = 1 THEN <<Head(strings)>>
    ELSE <<Head(strings), ",">> \o Join(Tail(strings))

\* ConstitutionEngine._summarize_check_results
SummarizeCheckResults(results, check_type) ==
    IF results = <<>>
    THEN [clause_id |-> <<"summary", check_type>>,
          overall_passed |-> TRUE,
          score |-> <<1, 1>>,
          violation_level |-> "none",
          has_details |-> FALSE,
          details_by_clause |-> <<>>]
    ELSE LET violation_levels == {results[i].value.violation_level : i \in 1..Len(results)}
         IN [clause_id |-> <<"summary", check_type>>,
             overall_passed |-> \A i \in 1..Len(results) : results[i].value.overall_passed,
             score |-> RDivInt(RSum([i \in 1..Len(results) |-> results[i].value.score]),
                               Len(results)),
             violation_level |->
                 IF "high" \in violation_levels THEN "high"
                 ELSE IF "medium" \in violation_levels THEN "medium"
                 ELSE IF "low" \in violation_levels THEN "low"
                 ELSE "none",
             has_details |-> TRUE,
             details_by_clause |-> results]

\* a _generate_safe_response without the generic refusal: only a configured
\* reject message is used
GenerateSafeResponseConfiguredOnly(clause) ==
    LET HasMessage(ac) == ac.action = "reject" /\ ac.message # <<>>
        with_message == SelectSeq(clause.enforcement.violation_actions, HasMessage)
        rejection_msg == IF with_message # <<>> THEN Head(with_message).message ELSE <<>>
    IN IF clause.associated_tools # <<>>
       THEN rejection_msg \o <<"\n", "\n", "you can try: ">> \o Join(clause.associated_tools)
       ELSE rejection_msg

\* ConstitutionEngine._generate_safe_response
GenerateSafeResponse(clause) ==
    LET HasMessage(ac) == ac.action = "reject" /\ ac.message # <<>>
        with_message == SelectSeq(clause.enforcement.violation_actions, HasMessage)
        rejection_msg == IF with_message # <<>> THEN Head(with_message).message
                         ELSE <<"sorry, because of ", clause.name, " I cannot handle this">>
    IN IF clause.associated_tools # <<>>
       THEN rejection_msg \o <<"\n", "\n", "you can try: ">> \o Join(clause.associated_tools)
       ELSE rejection_msg

\* ConstitutionEngine._generate_clause_suggestions
GenerateClauseSuggestions(clause, risk_level) ==
    <<<<"improve ", clause.name>>>>
    \o (IF clause.associated_tools # <<>>
        THEN <<<<"consider tools: ">>
               \o Join(SubSeq(clause.associated_tools, 1,
                              IF Len(clause.associated_tools) < 3
                              THEN Len(clause.associated_tools) ELSE 3))>>
        ELSE <<>>)
    \o (IF risk_level = "high" THEN <<<<"rework the content">>>>
        ELSE IF risk_level = "medium" THEN <<<<"add a clarification">>>>
        ELSE <<>>)

\* the correction/warning part of _make_enforcement_decision
RECURSIVE SuggestionsAndWarnings(_, _, _)
SuggestionsAndWarnings(cfg, high_risk_clauses, acc) ==
    IF high_risk_clauses = <<>> THEN acc
    ELSE LET clause_id == Head(high_risk_clauses)[1]
             risk_level == Head(high_risk_clauses)[2]
             clause == GetClauseById(cfg, clause_id)
         IN SuggestionsAndWarnings(cfg, Tail(high_risk_clauses),
                IF IsSome(clause)
                THEN [suggestions |-> acc.suggestions
                                      \o GenerateClauseSuggestions(clause[1], risk_level),
                      warnings |-> Append(acc.warnings,
                                          <<"warning: ", clause[1].name, risk_level>>)]
                ELSE acc)

\* whether the reject loop of _make_enforcement_decision stops at this entry
Rejects(cfg, entry) ==
    /\ ~entry.value.overall_passed
    /\ LET clause == GetClauseById(cfg, entry.key) IN
       /\ IsSome(clause)
       /\ clause[1].enforcement.level = "required"
    /\ \E i \in 1..Len(entry.value.suggested_actions) :
           entry.value.suggested_actions[i] = "reject"

\* ConstitutionEngine._make_enforcement_decision
MakeEnforcementDecision(cfg, results) ==
    LET rejecting == {i \in 1..Len(results) : Rejects(cfg, results[i])} IN
    IF rejecting # {}
    THEN LET entry == results[CHOOSE i \in rejecting : \A j \in rejecting : i <= j] IN
         [should_proceed |-> FALSE,
          requires_correction |-> FALSE,
          correction_suggestions |-> <<>>,
          safe_response |-> Some(GenerateSafeResponse(GetClauseById(cfg, entry.key)[1])),
          warnings |-> <<>>,
          audit_info |-> Some([rejected_clause |-> entry.key,
                               violation_level |-> entry.value.violation_level])]
    ELSE LET high_risk_clauses == GetHighRiskClauses(results)
             sw == SuggestionsAndWarnings(cfg, high_risk_clauses,
                                          [suggestions |-> <<>>, warnings |-> <<>>])
         IN [should_proceed |-> TRUE,
             requires_correction |-> high_risk_clauses # <<>>,
             correction_suggestions |-> sw.suggestions,
             safe_response |-> None,
             warnings |-> sw.warnings,
             audit_info |-> None]

\* ConstitutionEngine._get_highest_risk_clause
GetHighestRiskClause(results) ==
    LET high_risk == GetHighRiskClauses(results) IN
    IF high_risk # <<>> THEN Some(high_risk[1][1]) ELSE None

\* ConstitutionEngine._generate_corrections: list(set(corrections)), as a set
GenerateCorrections(cfg, results) ==
    UNION {LET r == results[i].value
               clause == GetClauseById(cfg, results[i].key)
           IN IF ~r.overall_passed /\ IsSome(clause)
              THEN {<<clause[1].name, r.details[j].message>> :
                        j \in {k \in 1..Len(r.details) : ~r.details[k].passed}}
              ELSE {} : i \in 1..Len(results)}

\* the number of characters of a checked text that an audit record keeps
PreviewLen == 100

\* the text_preview of _log_audit
TextPreview(text) ==
    IF Len(text) > PreviewLen THEN SubSeq(text, 1, PreviewLen) \o <<".", ".", ".">>
    ELSE text

\* the audit_entry of ConstitutionEngine._log_audit
AuditEntry(query_id, check_type, text, result, decision_info) ==
    [query_id |-> query_id,
     check_type |-> check_type,
     text_preview |-> TextPreview(text),
     overall_passed |-> result.overall_passed,
     overall_score |-> result.overall_score,
     highest_risk_clause |-> result.highest_risk_clause,
     highest_risk_level |-> result.highest_risk_level,
     should_proceed |-> result.should_proceed,
     requires_correction |-> result.requires_correction,
     decision_info |-> decision_info]

\* the ConstitutionCheckResult that check_input creates
InputResult(query_id, pre_check_summary, pre_check_results, decision) ==
    [query_id |-> query_id,
     pre_check |-> Some(pre_check_summary),
     post_check |-> None,
     overall_passed |-> decision.should_proceed,
     overall_score |-> pre_check_summary.score,
     highest_risk_clause |-> GetHighestRiskClause(pre_check_results),
     highest_risk_level |-> pre_check_summary.violation_level,
     should_proceed |-> decision.should_proceed,
     requires_correction |-> decision.requires_correction,
     correction_suggestions |-> decision.correction_suggestions]

\* the ConstitutionCheckResult that check_output creates
OutputResult(cfg, query_id, previous_result, post_check_summary, post_check_results) ==
    [query_id |-> query_id,
     pre_check |-> previous_result.pre_check,
     post_check |-> Some(post_check_summary),
     overall_passed |-> post_check_summary.overall_passed,
     overall_score |-> RDivInt(RAdd(previous_result.overall_score,
                                    post_check_summary.score), 2),
     highest_risk_clause |-> GetHighestRiskClause(post_check_results),
     highest_risk_level |-> post_check_summary.violation_level,
     should_proceed |-> TRUE,
     requires_correction |-> ~post_check_summary.overall_passed,
     correction_suggestions |-> GenerateCorrections(cfg, post_check_results)]

\* ConstitutionEngine._apply_clause_corrections
ApplyClauseCorrections(text, clause) ==
    IF /\ clause.category = "safety"
       /\ clause.required_disclaimer # <<>>
       /\ ~Contains(text, clause.required_disclaimer)
    THEN text \o <<"\n", "\n">> \o clause.required_disclaimer
    ELSE text

\* a disclaimer loop that does not look for the disclaimer in the text
RECURSIVE AddDisclaimersUnconditionally(_, _, _)
AddDisclaimersUnconditionally(cfg, text, entries) ==
    IF entries = <<>> THEN text
    ELSE LET clause == GetClauseById(cfg, Head(entries).key) IN
         AddDisclaimersUnconditionally(cfg,
             IF IsSome(clause) /\ clause[1].required_disclaimer # <<>>
             THEN text \o <<"\n", "\n">> \o clause[1].required_disclaimer
             ELSE text,
             Tail(entries))

\* step 1 of apply_constitutional_corrections: the disclaimer loop
RECURSIVE AddDisclaimers(_, _, _)
AddDisclaimers(cfg, text, entries) ==
    IF entries = <<>> THEN text
    ELSE LET clause == GetClauseById(cfg, Head(entries).key) IN
         AddDisclaimers(cfg,
             IF /\ IsSome(clause)
                /\ clause[1].required_disclaimer # <<>>
                /\ ~Contains(text, clause[1].required_disclaimer)
             THEN text \o <<"\n", "\n">> \o clause[1].required_disclaimer
             ELSE text,
             Tail(entries))

\* step 2 of apply_constitutional_corrections: the high-risk loop
RECURSIVE CorrectHighRisk(_, _, _)
CorrectHighRisk(cfg, text, high_risk_clauses) ==
    IF high_risk_clauses = <<>> THEN text
    ELSE LET clause == GetClauseById(cfg, Head(high_risk_clauses)[1]) IN
         CorrectHighRisk(cfg,
             IF IsSome(clause) /\ clause[1].enforcement.level = "required"
             THEN ApplyClauseCorrections(text, clause[1])
             ELSE text,
             Tail(high_risk_clauses))

\* an apply_constitutional_corrections without the requires_correction guard
ApplyConstitutionalCorrectionsUnguarded(cfg, text, check_result) ==
    LET details == IF IsSome(check_result.post_check)
                      /\ check_result.post_check[1].has_details
                   THEN check_result.post_check[1].details_by_clause
                   ELSE <<>>
    IN CorrectHighRisk(cfg, AddDisclaimers(cfg, text, details),
                       GetHighRiskClauses(details))

\* ConstitutionEngine.apply_constitutional_corrections
ApplyConstitutionalCorrections(cfg, text, check_result) ==
    IF ~check_result.requires_correction THEN text
    ELSE LET details == IF IsSome(check_result.post_check)
                           /\ check_result.post_check[1].has_details
                        THEN check_result.post_check[1].details_by_clause
                        ELSE <<>>
         IN CorrectHighRisk(cfg, AddDisclaimers(cfg, text, details),
                            GetHighRiskClauses(details))

-----------------------------------------------------------------------------
(* Policy documents and inputs of the model *)

\* the longest audit log the model follows
MaxOps == 3

ActionConfig(action, message) == [action |-> action, message |-> message]

RuleConfig(rule_id, rule_type, cfg, weight, enabled) ==
    [rule_id |-> rule_id, rule_type |-> rule_type, config |-> cfg,
     weight |-> weight, enabled |-> enabled]

\* a keyword rule that fails on texts containing the keyword
Prohibits(rule_id, keyword, weight) ==
    RuleConfig(rule_id, "keyword_check", [prohibited_keywords |-> <<keyword>>,
                                          match_mode |-> "none"], weight, TRUE)

\* a keyword rule that passes on texts containing the keyword
Requires(rule_id, keyword, weight) ==
    RuleConfig(rule_id, "keyword_check", [keywords |-> <<keyword>>,
                                          match_mode |-> "any",
                                          required_count |-> 1], weight, TRUE)

\* a rule that always passes
Judge(rule_id, enabled) ==
    RuleConfig(rule_id, "llm_judge", [judge_prompt |-> <<"p">>], <<1, 1>>, enabled)

\* a regex rule: passes on a match when required, on no match when not
Regex(rule_id, pattern, required) ==
    RuleConfig(rule_id, "regex_check", [pattern |-> pattern, required |-> required],
               <<1, 1>>, TRUE)

ClauseConfig(id, name, category, level, pre_check, post_check, actions, rules, tools, disclaimer) ==
    [id |-> id, name |-> name, category |-> category,
     detection_rules |-> rules,
     enforcement |-> [level |-> level, pre_check |-> pre_check, post_check |-> post_check,
                      violation_actions |-> actions],
     associated_tools |-> tools,
     required_disclaimer |-> disclaimer]

Document(version, clauses) == [version |-> version, clauses |-> clauses]

\* the policy of the end-to-end scenarios: a recommended clause that wants "b",
\* a required clause that prohibits "a" and rejects with a message
DocScenario ==
    Document("1.0.0", <<
        ClauseConfig("C-001", "data", "general", "recommended", TRUE, TRUE,
                     <<ActionConfig("warn", <<>>), ActionConfig("append_warning", <<>>)>>,
                     <<Requires("R1", <<"b">>, <<1, 1>>)>>, <<>>, <<"w">>),
        ClauseConfig("C-002", "medical", "safety", "required", TRUE, TRUE,
                     <<ActionConfig("reject", <<"n", "o">>), ActionConfig("log_audit", <<>>)>>,
                     <<Prohibits("R2", <<"a">>, <<1, 2>>)>>, <<"tool">>, <<"d">>)>>)

\* required clauses of different severities without a reject action, an
\* optional clause, and a clause without an enabled rule
DocRisk ==
    Document("1.0.0", <<
        ClauseConfig("C-A", "strict", "safety", "required", TRUE, TRUE,
                     <<ActionConfig("warn", <<>>), ActionConfig("log_audit", <<>>)>>,
                     <<Prohibits("R1", <<"a">>, <<1, 1>>)>>, <<>>, <<"d">>),
        ClauseConfig("C-B", "mixed", "general", "required", TRUE, TRUE,
                     <<ActionConfig("warn", <<>>)>>,
                     <<Prohibits("R2", <<"b">>, <<1, 1>>), Judge("R3", TRUE),
                       Judge("R4", TRUE)>>,
                     <<>>, <<>>),
        ClauseConfig("C-C", "hint", "general", "optional", TRUE, TRUE,
                     <<ActionConfig("suggest_tool", <<>>)>>,
                     <<Prohibits("R5", <<"a">>, <<1, 1>>)>>, <<"tool">>, <<"a">>),
        ClauseConfig("C-D", "idle", "general", "required", TRUE, TRUE,
                     <<ActionConfig("reject", <<>>)>>,
                     <<Judge("R6", FALSE)>>, <<>>, <<"x">>)>>)

\* an optional clause alone
DocOptional ==
    Document("1.0.0", <<
        ClauseConfig("C-O", "hint", "general", "optional", TRUE, TRUE,
                     <<ActionConfig("suggest_tool", <<>>)>>,
                     <<Prohibits("R1", <<"a">>, <<1, 1>>)>>, <<>>, <<"d">>)>>)

\* two rejecting required clauses (the first without a message), one of them
\* evaluated at the pre-check only
DocReject ==
    Document("1.0.0", <<
        ClauseConfig("C-X", "first", "safety", "required", TRUE, FALSE,
                     <<ActionConfig("reject", <<>>)>>,
                     <<Prohibits("R1", <<"a">>, <<1, 1>>)>>, <<>>, <<>>),
        ClauseConfig("C-Y", "second", "safety", "required", TRUE, TRUE,
                     <<ActionConfig("reject", <<"n">>)>>,
                     <<Prohibits("R2", <<"a">>, <<1, 1>>), Judge("R3", TRUE)>>,
                     <<>>, <<"d">>)>>)

\* two clauses that share an id (load does not check uniqueness)
DocDuplicate ==
    Document("1.0.0", <<
        ClauseConfig("C-001", "strict", "safety", "required", TRUE, TRUE,
                     <<ActionConfig("reject", <<"n">>)>>,
                     <<Prohibits("R2", <<"a">>, <<1, 1>>)>>, <<>>, <<"d">>),
        ClauseConfig("C-001", "lenient", "general", "optional", TRUE, TRUE,
                     <<>>, <<Judge("R1", TRUE)>>, <<>>, <<>>)>>)

\* a required clause with a regex rule whose pattern does not compile, a
\* recommended clause whose regex rule has the same rule id and a valid
\* pattern, and an optional clause with a regex rule of its own
DocRegex ==
    Document("1.0.0", <<
        ClauseConfig("C-R1", "broken", "safety", "required", TRUE, TRUE,
                     <<ActionConfig("warn", <<>>)>>,
                     <<Regex("R1", <<"(">>, TRUE), Prohibits("R2", <<"b">>, <<1, 1>>)>>,
                     <<>>, <<>>),
        ClauseConfig("C-R2", "wanted", "general", "recommended", TRUE, TRUE,
                     <<ActionConfig("warn", <<>>)>>,
                     <<Regex("R1", <<"a">>, TRUE)>>, <<>>, <<"d">>),
        ClauseConfig("C-R3", "unwanted", "general", "optional", TRUE, TRUE,
                     <<ActionConfig("suggest_tool", <<>>)>>,
                     <<Regex("R3", <<"a">>, FALSE)>>, <<"tool">>, <<>>)>>)

\* a clause, evaluated at the post-check only, whose regex rule has a pattern
\* that is no string, between two clauses with keyword rules
DocMistyped ==
    Document("1.0.0", <<
        ClauseConfig("C-T1", "first", "safety", "required", TRUE, TRUE,
                     <<ActionConfig("warn", <<>>)>>,
                     <<Prohibits("R1", <<"a">>, <<1, 1>>)>>, <<>>, <<>>),
        ClauseConfig("C-T2", "mistyped", "general", "recommended", FALSE, TRUE,
                     <<ActionConfig("warn", <<>>)>>,
                     <<Regex("R2", NotAString, TRUE)>>, <<>>, <<>>),
        ClauseConfig("C-T3", "last", "general", "optional", TRUE, TRUE,
                     <<ActionConfig("suggest_tool", <<>>)>>,
                     <<Prohibits("R3", <<"b">>, <<1, 1>>)>>, <<"tool">>, <<>>)>>)

\* a clause whose case-sensitive keyword rule lists a keyword that is no
\* string, before a clause with a keyword rule
DocMistypedKeyword ==
    Document("1.0.0", <<
        ClauseConfig("C-T4", "mistyped", "safety", "required", TRUE, TRUE,
                     <<ActionConfig("warn", <<>>)>>,
                     <<Prohibits("R1", <<"a">>, <<1, 1>>),
                       RuleConfig("R4", "keyword_check",
                                  [keywords |-> <<<<"a">>, NotAString>>,
                                   case_sensitive |-> TRUE], <<1, 1>>, TRUE)>>,
                     <<>>, <<>>),
        ClauseConfig("C-T3", "last", "general", "optional", TRUE, TRUE,
                     <<ActionConfig("suggest_tool", <<>>)>>,
                     <<Prohibits("R3", <<"b">>, <<1, 1>>)>>, <<"tool">>, <<>>)>>)

\* a document without clauses
DocEmpty == Document("0.1.0", <<>>)

\* a text of n characters
LongText(n) == [i \in 1..n |-> "c"]

\* the runs of the model: the policy files the caller can load and the texts
\* it checks
Scenarios ==
    {[files |-> {DocScenario}, texts |-> {<<>>, <<"a">>}],
     [files |-> {DocScenario}, texts |-> {<<"b">>, <<"a", "w">>}],
     [files |-> {DocRisk}, texts |-> {<<"a">>, <<"a", "b">>}],
     [files |-> {DocRisk}, texts |-> {<<"b">>, <<"c">>}],
     [files |-> {DocReject}, texts |-> {<<"a">>, <<"b">>}],
     [files |-> {DocDuplicate}, texts |-> {<<"a">>, <<"b">>}],
     [files |-> {DocRegex}, texts |-> {<<"a">>, <<"b">>}],
     [files |-> {DocMistyped, DocMistypedKeyword}, texts |-> {<<"a">>}],
     [files |-> {DocEmpty, DocOptional}, texts |-> {<<"a">>}]}

\* ids the caller passes, and ids that str(uuid.uuid4())[:8] can give
SuppliedIds == {"q1"}

GeneratedIds == {"g1"}

-----------------------------------------------------------------------------
(* The engine's operations *)

Returned(op, input, query_id, generated, result, decision, evals, output) ==
    [op |-> op, raised |-> FALSE, error |-> "", input |-> input, query_id |-> query_id,
     generated |-> generated, result |-> result, decision |-> decision,
     evals |-> evals, output |-> output]

Raised(op, query_id, error) ==
    [op |-> op, raised |-> TRUE, error |-> error, input |-> <<>>, query_id |-> query_id,
     generated |-> FALSE, result |-> None, decision |-> None,
     evals |-> <<>>, output |-> <<>>]

\* ConstitutionEngine.__init__ without a constitution file
Init ==
    /\ env \in Scenarios
    /\ config = None
    /\ rule_cache = [k \in {} |-> k]
    /\ query_history = [q \in {} |-> q]
    /\ audit_logs = <<>>
    /\ ret = Returned("init", <<>>, "", FALSE, None, None, <<>>, <<>>)
    /\ calls = <<>>

\* ConstitutionEngine.load_constitution
LoadConstitution(doc) ==
    /\ config' = Some(doc)
    /\ UNCHANGED <<rule_cache, query_history, audit_logs, env, ret, calls>>

\* a check_input that stores its result without an audit record
CheckInputLoadedWithoutLog(user_input, query_id, generated) ==
    \E failure \in {BatchFailure(rule_cache, GetClausesWithPreCheck(config[1]), "pre_check")} :
    IF failure.raised
    THEN /\ rule_cache' = failure.cache
         /\ ret' = Raised("check_input", query_id, "rule error")
         /\ UNCHANGED <<config, query_history, audit_logs, env, calls>>
    ELSE
    \E batch \in {BatchEvaluate(rule_cache, GetClausesWithPreCheck(config[1]), user_input,
                                "pre_check", [results |-> <<>>, evals |-> <<>>])} :
    \E decision \in {MakeEnforcementDecision(config[1], batch.results)} :
    \E result \in {InputResult(query_id,
                               SummarizeCheckResults(batch.results, "pre_check"),
                               batch.results, decision)} :
        /\ Len(audit_logs) < MaxOps
        /\ rule_cache' = batch.cache
        /\ audit_logs' = audit_logs
        /\ query_history' = (query_id :> result) @@ query_history
        /\ ret' = Returned("check_input", user_input, query_id, generated,
                           Some(result), Some(decision), batch.evals, <<>>)
        /\ UNCHANGED <<config, env, calls>>

\* check_input once the constitution is known to be loaded: evaluate, decide,
\* log, then store
CheckInputLoaded(user_input, query_id, generated) ==
    \E failure \in {BatchFailure(rule_cache, GetClausesWithPreCheck(config[1]), "pre_check")} :
    IF failure.raised
    THEN /\ rule_cache' = failure.cache
         /\ ret' = Raised("check_input", query_id, "rule error")
         /\ UNCHANGED <<config, query_history, audit_logs, env, calls>>
    ELSE
    \E batch \in {BatchEvaluate(rule_cache, GetClausesWithPreCheck(config[1]), user_input,
                                "pre_check", [results |-> <<>>, evals |-> <<>>])} :
    \E decision \in {MakeEnforcementDecision(config[1], batch.results)} :
    \E result \in {InputResult(query_id,
                               SummarizeCheckResults(batch.results, "pre_check"),
                               batch.results, decision)} :
        /\ Len(audit_logs) < MaxOps
        /\ rule_cache' = batch.cache
        /\ audit_logs' = Append(audit_logs,
               AuditEntry(query_id, "pre_check", user_input, result,
                          Some(decision.audit_info)))
        /\ query_history' = (query_id :> result) @@ query_history
        /\ ret' = Returned("check_input", user_input, query_id, generated,
                           Some(result), Some(decision), batch.evals, <<>>)
        /\ UNCHANGED <<config, env, calls>>

\* ConstitutionEngine.check_input; query_id_arg is None or Some(id), uuid the
\* id that uuid4 would give
CheckInput(user_input, query_id_arg, uuid) ==
    IF config = None
    THEN /\ ret' = Raised("check_input", "", "config not loaded")
         /\ UNCHANGED <<config, rule_cache, query_history, audit_logs, env, calls>>
    ELSE CheckInputLoaded(user_input,
                          IF IsSome(query_id_arg) THEN query_id_arg[1] ELSE uuid,
                          ~IsSome(query_id_arg))

\* check_output once the query id is found in the store: evaluate, update the
\* stored result, then log
CheckOutputKnown(ai_output, query_id) ==
    \E failure \in {BatchFailure(rule_cache, GetClausesWithPostCheck(config[1]), "post_check")} :
    IF failure.raised
    THEN /\ rule_cache' = failure.cache
         /\ ret' = Raised("check_output", query_id, "rule error")
         /\ UNCHANGED <<config, query_history, audit_logs, env, calls>>
    ELSE
    \E batch \in {BatchEvaluate(rule_cache, GetClausesWithPostCheck(config[1]), ai_output,
                                "post_check", [results |-> <<>>, evals |-> <<>>])} :
    \E result \in {OutputResult(config[1], query_id, query_history[query_id],
                                SummarizeCheckResults(batch.results, "post_check"),
                                batch.results)} :
        /\ Len(audit_logs) < MaxOps
        /\ rule_cache' = batch.cache
        /\ query_history' = (query_id :> result) @@ query_history
        /\ audit_logs' = Append(audit_logs,
               AuditEntry(query_id, "post_check", ai_output, result, None))
        /\ ret' = Returned("check_output", ai_output, query_id, FALSE,
                           Some(result), None, batch.evals, <<>>)
        /\ UNCHANGED <<config, env, calls>>

\* a check_output that records the failed call in the audit log before it
\* raises on an unknown query id
CheckOutputLoggingUnknown(ai_output, query_id) ==
    IF config = None
    THEN /\ ret' = Raised("check_output", query_id, "config not loaded")
         /\ UNCHANGED <<config, rule_cache, query_history, audit_logs, env, calls>>
    ELSE IF query_id \notin DOMAIN query_history
    THEN /\ ret' = Raised("check_output", query_id, "query id not found")
         /\ audit_logs' = Append(audit_logs, [query_id |-> query_id,
                                              check_type |-> "post_check"])
         /\ UNCHANGED <<config, rule_cache, query_history, env, calls>>
    ELSE CheckOutputKnown(ai_output, query_id)

\* ConstitutionEngine.check_output
CheckOutput(ai_output, query_id) ==
    IF config = None
    THEN /\ ret' = Raised("check_output", query_id, "config not loaded")
         /\ UNCHANGED <<config, rule_cache, query_history, audit_logs, env, calls>>
    ELSE IF query_id \notin DOMAIN query_history
    THEN /\ ret' = Raised("check_output", query_id, "query id not found")
         /\ UNCHANGED <<config, rule_cache, query_history, audit_logs, env, calls>>
    ELSE CheckOutputKnown(ai_output, query_id)

\* Python's s[start:] on a list
SliceFrom(s, start) ==
    LET n == Len(s)
        first == IF start < 0 THEN (IF n + start < 0 THEN 0 ELSE n + start)
                 ELSE (IF start > n THEN n ELSE start)
    IN SubSeq(s, first + 1, n)

\* the list that get_audit_summary(limit) returns
AuditSummary(logs, limit) == IF logs # <<>> THEN SliceFrom(logs, -limit) ELSE <<>>

\* a get_audit_summary that cuts the log down to the records it returns
GetAuditSummaryTruncating(limit) ==
    /\ ret' = Returned("get_audit_summary", limit, "", FALSE, None, None, <<>>,
                       AuditSummary(audit_logs, limit))
    /\ audit_logs' = AuditSummary(audit_logs, limit)
    /\ UNCHANGED <<config, rule_cache, query_history, env, calls>>

\* ConstitutionEngine.get_audit_summary
GetAuditSummary(limit) ==
    /\ ret' = Returned("get_audit_summary", limit, "", FALSE, None, None, <<>>,
                       AuditSummary(audit_logs, limit))
    /\ UNCHANGED <<config, rule_cache, query_history, audit_logs, env, calls>>

\* the dict that get_constitution_stats returns ({} without a constitution)
ConstitutionStats(cfg_opt, logs) ==
    IF cfg_opt = None THEN [k \in {} |-> k]
    ELSE LET clauses == cfg_opt[1].clauses
             Count(Key(_)) ==
                 [v \in {Key(clauses[i]) : i \in 1..Len(clauses)} |->
                     Cardinality({i \in 1..Len(clauses) : Key(clauses[i]) = v})]
             Category(c) == c.category
             Level(c) == c.enforcement.level
             successful == Cardinality({i \in 1..Len(logs) : logs[i].overall_passed})
         IN [version |-> cfg_opt[1].version,
             clause_count |-> Len(clauses),
             categories |-> Count(Category),
             enforcement_levels |-> Count(Level),
             recent_checks |-> Len(logs),
             success_rate |-> IF logs # <<>> THEN Rat(successful, Len(logs)) ELSE <<0, 1>>]

\* ConstitutionEngine.get_constitution_stats
GetConstitutionStats ==
    /\ ret' = Returned("get_constitution_stats", <<>>, "", FALSE, None, None, <<>>,
                       ConstitutionStats(config, audit_logs))
    /\ UNCHANGED <<config, rule_cache, query_history, audit_logs, env, calls>>

\* ConstitutionEngine.apply_constitutional_corrections, on the check result
\* that the last call returned
ApplyCorrections(text) ==
    /\ config # None
    /\ IsSome(ret.result)
    /\ ret' = Returned("apply_corrections", text, ret.query_id, FALSE,
                       ret.result, None, <<>>,
                       ApplyConstitutionalCorrections(config[1], text, ret.result[1]))
    /\ UNCHANGED <<config, rule_cache, query_history, audit_logs, env, calls>>

\* the query_id argument of check_input: None or an id of the caller
IdArgs == {None} \cup {Some(q) : q \in SuppliedIds}

QueryIds == SuppliedIds \cup GeneratedIds

\* the limit argument of get_audit_summary: from none to more than the log holds
Limits == 0..(MaxOps + 1)

Next ==
    \/ \E doc \in env.files : LoadConstitution(doc)
    \/ \E text \in env.texts, arg \in IdArgs, uuid \in GeneratedIds :
          CheckInput(text, arg, uuid)
    \/ \E text \in env.texts, q \in QueryIds : CheckOutput(text, q)
    \/ \E text \in env.texts : ApplyCorrections(text)

Spec == Init /\ [][Next]_vars

-----------------------------------------------------------------------------
(* The engine with its audit queries, on runs that include texts around the  *)
(* preview length                                                            *)

AuditScenarios ==
    {[files |-> {DocScenario}, texts |-> {<<>>, <<"a">>}],
     [files |-> {DocEmpty, DocOptional}, texts |-> {<<"a">>}],
     [files |-> {DocOptional}, texts |-> {LongText(PreviewLen), LongText(PreviewLen + 1)}]}

InitAudit ==
    /\ env \in AuditScenarios
    /\ config = None
    /\ rule_cache = [k \in {} |-> k]
    /\ query_history = [q \in {} |-> q]
    /\ audit_logs = <<>>
    /\ ret = Returned("init", <<>>, "", FALSE, None, None, <<>>, <<>>)
    /\ calls = <<>>

NextAudit ==
    \/ Next
    \/ \E limit \in Limits : GetAuditSummary(limit)
    \/ GetConstitutionStats

SpecAudit == InitAudit /\ [][NextAudit]_vars

-----------------------------------------------------------------------------
(* Clause evaluation on its own: a clause with n enabled rules of which k    *)
(* fail on the text, evaluated by a fresh RuleEvaluator                      *)

\* the largest number of enabled rules of a clause
MaxRules == 10

Levels == {"required", "recommended", "optional"}

\* k rules that fail on "a", a disabled rule, then n - k rules that pass, of
\* weight 1/2 and 1 in turn
CountedRules(n, k) ==
    [i \in 1..(n + 1) |->
        IF i <= k THEN Prohibits(<<"F", i>>, <<"a">>, <<1, 1>>)
        ELSE IF i = k + 1 THEN Judge(<<"D", i>>, FALSE)
        ELSE IF i % 2 = 0 THEN Requires(<<"P", i>>, <<"a">>, <<1, 2>>)
        ELSE Judge(<<"P", i>>, TRUE)]

CountedClause(level, n, k, pre_check) ==
    ClauseConfig("C-N", "counted", "general", level, pre_check, TRUE,
                 <<ActionConfig("reject", <<>>), ActionConfig("warn", <<>>),
                   ActionConfig("suggest_tool", <<>>)>>,
                 CountedRules(n, k), <<>>, <<>>)

InitClause ==
    /\ \E level \in Levels, n \in 0..MaxRules, pre_check \in BOOLEAN :
         \E k \in 0..n :
            env = [files |-> {Document("1.0.0", <<CountedClause(level, n, k, pre_check)>>)},
                   texts |-> {<<"a">>}]
    /\ config = None
    /\ rule_cache = [k \in {} |-> k]
    /\ query_history = [q \in {} |-> q]
    /\ audit_logs = <<>>
    /\ ret = Returned("init", <<>>, "", FALSE, None, None, <<>>, <<>>)
    /\ calls = <<>>

\* RuleEvaluator.evaluate_clause, called on its own
EvaluateClauseCall(clause, text, check_type) ==
    LET got == EvaluateClause(rule_cache, clause, text, check_type) IN
    /\ ret.op = "init"
    /\ rule_cache' = got.cache
    /\ ret' = Returned("evaluate_clause", text, check_type, FALSE, None, None,
                       <<[clause |-> clause, result |-> got.result]>>, <<>>)
    /\ UNCHANGED <<config, query_history, audit_logs, env, calls>>

NextClause ==
    \E doc \in env.files, text \in env.texts, check_type \in {"pre_check", "post_check"} :
        EvaluateClauseCall(doc.clauses[1], text, check_type)

SpecClause == InitClause /\ [][NextClause]_vars

-----------------------------------------------------------------------------
(* The parser, on the data yaml.safe_load returns for a source. A mapping is *)
(* a function on the keys it has, a list is a sequence, and a value that may *)
(* be None is None or Some(value); strings are atoms here                    *)

\* the mapping {}
EmptyMap == [k \in {} |-> k]

\* schema.RuleType
RuleTypes == {"keyword_check", "regex_check", "semantic_check", "llm_judge", "composite"}

\* schema.EnforcementLevel
EnforcementLevels == {"required", "recommended", "optional"}

\* schema.ViolationAction
ViolationActions ==
    {"reject", "warn", "append_warning", "suggest_tool", "log_audit", "correct_auto"}

\* the exception of the first step that raises, "" when no step does
FirstError(errors) ==
    IF \A i \in DOMAIN errors : errors[i] = "" THEN ""
    ELSE errors[CHOOSE i \in DOMAIN errors :
                    errors[i] # "" /\ \A j \in 1..(i - 1) : errors[j] = ""]

\* d[key] for a key the code subscripts: KeyError when it is missing
KeyError(d, key) == IF key \in DOMAIN d THEN "" ELSE "KeyError"

\* Enum(value): ValueError when value is not a member's value
ValueError(value, members) == IF value \in members THEN "" ELSE "ValueError"

\* the DetectionRuleConfig(...) call of _parse_clause
RuleError(rule_data) ==
    FirstError(<<KeyError(rule_data, "rule_id"), KeyError(rule_data, "type"),
                 ValueError(Get(rule_data, "type", ""), RuleTypes)>>)

ParseRule(rule_data) ==
    [rule_id |-> rule_data.rule_id,
     rule_type |-> rule_data.type,
     config |-> Get(rule_data, "config", EmptyMap),
     weight |-> Get(rule_data, "weight", <<1, 1>>),
     enabled |-> Get(rule_data, "enabled", TRUE),
     description |-> Get(rule_data, "description", "")]

\* the ViolationActionConfig(...) call of _parse_clause
ActionError(action_data) ==
    FirstError(<<KeyError(action_data, "action"),
                 ValueError(Get(action_data, "action", ""), ViolationActions)>>)

ParseAction(action_data) ==
    [action |-> action_data.action,
     message |-> Get(action_data, "message", None),
     tool_name |-> Get(action_data, "tool_name", None),
     severity |-> Get(action_data, "severity", "medium")]

\* ConstitutionParser._parse_clause: what it raises
ClauseError(clause_data) ==
    LET rules == Get(clause_data, "detection_rules", <<>>)
        enforcement_data == Get(clause_data, "enforcement", EmptyMap)
        actions == Get(enforcement_data, "violation_actions", <<>>)
    IN FirstError([i \in 1..Len(rules) |-> RuleError(rules[i])]
                  \o [i \in 1..Len(actions) |-> ActionError(actions[i])]
                  \o <<ValueError(Get(enforcement_data, "level", "required"),
                                  EnforcementLevels),
                       KeyError(clause_data, "id"), KeyError(clause_data, "name"),
                       KeyError(clause_data, "description")>>)

\* ConstitutionParser._parse_clause: what it returns
ParseClause(clause_data) ==
    LET rules == Get(clause_data, "detection_rules", <<>>)
        enforcement_data == Get(clause_data, "enforcement", EmptyMap)
        actions == Get(enforcement_data, "violation_actions", <<>>)
    IN [id |-> clause_data.id,
        name |-> clause_data.name,
        description |-> clause_data.description,
        category |-> Get(clause_data, "category", "general"),
        priority |-> Get(clause_data, "priority", 100),
        detection_rules |-> [i \in 1..Len(rules) |-> ParseRule(rules[i])],
        enforcement |->
            [level |-> Get(enforcement_data, "level", "required"),
             pre_check |-> Get(enforcement_data, "pre_check", TRUE),
             post_check |-> Get(enforcement_data, "post_check", TRUE),
             violation_actions |-> [i \in 1..Len(actions) |-> ParseAction(actions[i])]],
        associated_tools |-> Get(clause_data, "associated_tools", <<>>),
        required_disclaimer |-> Get(clause_data, "required_disclaimer", None),
        version |-> Get(clause_data, "version", "1.0.0"),
        metadata |-> Get(clause_data, "metadata", EmptyMap)]

\* the ClauseGroup(...) call of _parse_config
GroupError(group_data) ==
    FirstError(<<KeyError(group_data, "name"), KeyError(group_data, "clause_ids")>>)

ParseGroup(group_data) ==
    [name |-> group_data.name,
     clause_ids |-> group_data.clause_ids,
     description |-> Get(group_data, "description", ""),
     enforcement_mode |-> Get(group_data, "enforcement_mode", "strict")]

\* ConstitutionParser._parse_config: what it raises
ConfigError(data) ==
    LET clauses == Get(data, "clauses", <<>>)
        groups == Get(data, "clause_groups", <<>>)
    IN FirstError([i \in 1..Len(clauses) |-> ClauseError(clauses[i])]
                  \o [i \in 1..Len(groups) |-> GroupError(groups[i])]
                  \o <<KeyError(data, "version")>>)

\* ConstitutionParser._parse_config: what it returns
ParseConfig(data) ==
    LET clauses == Get(data, "clauses", <<>>)
        groups == Get(data, "clause_groups", <<>>)
    IN [version |-> data.version,
        metadata |-> Get(data, "metadata", EmptyMap),
        clauses |-> [i \in 1..Len(clauses) |-> ParseClause(clauses[i])],
        clause_groups |-> [i \in 1..Len(groups) |-> ParseGroup(groups[i])],
        enforcement_config |-> Get(data, "enforcement_config", EmptyMap),
        audit_config |-> Get(data, "audit_config", EmptyMap)]

RECURSIVE Concat(_)
\* the lists of a list of lists, one after the other
Concat(lists) == IF lists = <<>> THEN <<>> ELSE Head(lists) \o Concat(Tail(lists))

\* ConstitutionParser.validate_config on a loaded configuration
ValidateConfig(cfg) ==
    LET clauses == cfg.clauses
        groups == cfg.clause_groups
        duplicate(i) ==
            IF \E j \in 1..(i - 1) : clauses[j].id = clauses[i].id
            THEN <<[error |-> "duplicate clause id", clause_id |-> clauses[i].id]>>
            ELSE <<>>
        missing(g, i) ==
            IF \E j \in 1..Len(clauses) : clauses[j].id = g.clause_ids[i]
            THEN <<>>
            ELSE <<[error |-> "group refers to a missing clause", clause_id |-> g.clause_ids[i]]>>
        weight(c, i) ==
            IF RGt(<<0, 1>>, c.detection_rules[i].weight)
               \/ RGt(c.detection_rules[i].weight, <<1, 1>>)
            THEN <<[error |-> "weight must be between 0 and 1", clause_id |-> c.id]>>
            ELSE <<>>
    IN Concat([i \in 1..Len(clauses) |-> duplicate(i)])
       \o Concat([k \in 1..Len(groups) |->
                     Concat([i \in 1..Len(groups[k].clause_ids) |-> missing(groups[k], i)])])
       \o Concat([k \in 1..Len(clauses) |->
                     Concat([i \in 1..Len(clauses[k].detection_rules) |->
                                weight(clauses[k], i)])])

\* Python's truth value of an Optional[str]
Truthy(value) == value # None /\ value[1] # ""

\* the entry key: value, written only when the value is truthy
WhenTruthy(key, value) == IF Truthy(value) THEN key :> value ELSE EmptyMap

\* ConstitutionParser.save_to_file: the data handed to yaml.dump
SaveToData(cfg) ==
    LET rule_data(rule) ==
            [rule_id |-> rule.rule_id, type |-> rule.rule_type, config |-> rule.config,
             weight |-> rule.weight, enabled |-> rule.enabled,
             description |-> rule.description]
        action_data(action) ==
            [action |-> action.action, severity |-> action.severity]
            @@ WhenTruthy("message", action.message)
            @@ WhenTruthy("tool_name", action.tool_name)
        clause_data(clause) ==
            [id |-> clause.id, name |-> clause.name, description |-> clause.description,
             category |-> clause.category, priority |-> clause.priority,
             version |-> clause.version,
             detection_rules |->
                 [i \in 1..Len(clause.detection_rules) |->
                     rule_data(clause.detection_rules[i])],
             enforcement |->
                 [level |-> clause.enforcement.level,
                  pre_check |-> clause.enforcement.pre_check,
                  post_check |-> clause.enforcement.post_check,
                  violation_actions |->
                      [i \in 1..Len(clause.enforcement.violation_actions) |->
                          action_data(clause.enforcement.violation_actions[i])]],
             associated_tools |-> clause.associated_tools,
             metadata |-> clause.metadata]
            @@ WhenTruthy("required_disclaimer", clause.required_disclaimer)
    IN [version |-> cfg.version,
        metadata |-> cfg.metadata,
        clauses |-> [i \in 1..Len(cfg.clauses) |-> clause_data(cfg.clauses[i])],
        clause_groups |->
            [i \in 1..Len(cfg.clause_groups) |->
                [name |-> cfg.clause_groups[i].name,
                 clause_ids |-> cfg.clause_groups[i].clause_ids,
                 description |-> cfg.clause_groups[i].description,
                 enforcement_mode |-> cfg.clause_groups[i].enforcement_mode]],
        enforcement_config |-> cfg.enforcement_config,
        audit_config |-> cfg.audit_config]

\* the largest number of clauses of a source
MaxClauses == 2

\* violation_actions entries of a source: with and without the optional keys,
\* with empty strings, with a value outside the enumeration, without the
\* required key
ActionSources ==
    {[action |-> "reject"],
     [action |-> "reject", message |-> Some("m"), severity |-> "high"],
     [action |-> "warn", message |-> Some("")],
     [action |-> "suggest_tool", tool_name |-> Some("t"), message |-> None],
     [action |-> "suggest_tool", tool_name |-> Some("")],
     [action |-> "escalate"],
     [message |-> Some("m")]}

\* detection_rules entries of a source
RuleSources ==
    {[rule_id |-> "R1", type |-> "keyword_check"],
     [rule_id |-> "R1", type |-> "keyword_check", config |-> [match_mode |-> "all"],
      weight |-> <<1, 2>>, enabled |-> FALSE, description |-> "r"],
     [rule_id |-> "R2", type |-> "regex_check", weight |-> <<3, 2>>],
     [rule_id |-> "R1", type |-> "fuzzy_check"],
     [type |-> "keyword_check"]}

\* the keys every clause of a source must have
ClauseSource(id) == [id |-> id, name |-> "n", description |-> "d"]

\* clauses of a source: the two ids with each form of required_disclaimer,
\* then one clause with each action, each rule, each enforcement level, and
\* one without a description
ClauseSources ==
    {ClauseSource(id) : id \in {"C-001", "C-002"}}
    \cup {ClauseSource(id) @@ ("required_disclaimer" :> disclaimer) :
             id \in {"C-001", "C-002"}, disclaimer \in {None, Some(""), Some("x")}}
    \cup {ClauseSource("C-001") @@ ("enforcement" :> [violation_actions |-> <<action>>]) :
             action \in ActionSources}
    \cup {ClauseSource("C-001") @@ ("detection_rules" :> <<rule>>) : rule \in RuleSources}
    \cup {ClauseSource("C-001")
          @@ ("enforcement" :> [level |-> level, pre_check |-> FALSE]) :
             level \in {"recommended", "optional", "mandatory"}}
    \cup {[id |-> "C-001", name |-> "n", category |-> "privacy", priority |-> 1,
           version |-> "2.0.0", associated_tools |-> <<"t">>,
           metadata |-> [owner |-> "x"]]}

\* what stands around the clauses in a source: the version alone, every
\* optional key, a group that refers to no clause, a group without a name,
\* no version
FrameSources ==
    {[version |-> "1.0"],
     [version |-> "1.0", metadata |-> [author |-> "x"],
      enforcement_config |-> [mode |-> "strict"], audit_config |-> [enabled |-> TRUE],
      clause_groups |-> <<[name |-> "g", clause_ids |-> <<"C-001">>]>>],
     [version |-> "1.0",
      clause_groups |-> <<[name |-> "g", clause_ids |-> <<"C-009">>, description |-> "d",
                           enforcement_mode |-> "lenient"]>>],
     [version |-> "1.0", clause_groups |-> <<[clause_ids |-> <<>>]>>],
     EmptyMap}

\* the sources: up to MaxClauses clauses under a version, and each frame
\* without clauses and around one clause
Sources ==
    {[version |-> "1.0", clauses |-> clauses] :
        clauses \in UNION {[1..n -> ClauseSources] : n \in 0..MaxClauses}}
    \cup FrameSources
    \cup {frame @@ ("clauses" :> <<ClauseSource("C-001")>>) : frame \in FrameSources}

\* ConstitutionParser.__init__, with a source to load and no file saved yet
InitParser ==
    /\ \E source \in Sources : env = [source |-> source, file |-> None]
    /\ config = None
    /\ rule_cache = [k \in {} |-> k]
    /\ query_history = [q \in {} |-> q]
    /\ audit_logs = <<>>
    /\ ret = Returned("init", <<>>, "", FALSE, None, None, <<>>, <<>>)
    /\ calls = <<>>

\* load_from_string and load_from_file after yaml.safe_load: parse, keep the
\* configuration and return it, or raise what _parse_config raises
Load(op, data) ==
    /\ \E error \in {ConfigError(data)} :
          IF error = ""
          THEN /\ config' = Some(ParseConfig(data))
               /\ ret' = Returned(op, data, "", FALSE, None, None, <<>>, config'[1])
          ELSE /\ config' = config
               /\ ret' = Raised(op, "", error)
    /\ UNCHANGED <<rule_cache, query_history, audit_logs, env, calls>>

\* ConstitutionParser.load_from_string
LoadFromString == Load("load_from_string", env.source)

\* ConstitutionParser.load_from_file
LoadFromFile ==
    IF env.file = None
    THEN /\ ret' = Raised("load_from_file", "", "FileNotFoundError")
         /\ UNCHANGED <<config, rule_cache, query_history, audit_logs, env, calls>>
    ELSE Load("load_from_file", env.file[1])

\* ConstitutionParser.validate_config on the parser's configuration
ValidateConfigCall ==
    /\ ret' = Returned("validate_config", config, "", FALSE, None, None, <<>>,
                       IF config = None THEN <<[error |-> "configuration not loaded"]>>
                       ELSE ValidateConfig(config[1]))
    /\ UNCHANGED <<config, rule_cache, query_history, audit_logs, env, calls>>

\* ConstitutionParser.save_to_file of the parser's configuration
SaveToFile ==
    IF config = None
    THEN /\ ret' = Raised("save_to_file", "", "ValueError")
         /\ UNCHANGED <<config, rule_cache, query_history, audit_logs, env, calls>>
    ELSE /\ env' = [env EXCEPT !.file = Some(SaveToData(config[1]))]
         /\ ret' = Returned("save_to_file", config, "", FALSE, None, None, <<>>, <<>>)
         /\ UNCHANGED <<config, rule_cache, query_history, audit_logs, calls>>

NextParser ==
    \/ LoadFromString
    \/ LoadFromFile
    \/ ValidateConfigCall
    \/ SaveToFile

SpecParser == InitParser /\ [][NextParser]_vars

-----------------------------------------------------------------------------
(* A keyword rule on its own: created by the factory from a configuration,  *)
(* then evaluated on a text                                                  *)

\* the largest number of entries of keywords and of prohibited_keywords
MaxKeywords == 2

\* the lists of at most MaxKeywords entries of a set
ListsOf(entries) == UNION {[1..n -> entries] : n \in 0..MaxKeywords}

\* the config mappings of a keyword rule: every key given, and the forms that
\* rest on the defaults of __init__
KeywordConfigs ==
    {[keywords |-> kws, prohibited_keywords |-> pro, match_mode |-> mode,
      required_count |-> count, case_sensitive |-> cs] :
        kws \in ListsOf({<<"a">>, <<"B">>}), pro \in ListsOf({<<"c">>, <<"a", "B">>}),
        mode \in {"any", "all", "none", "most"}, count \in 0..(MaxKeywords + 1),
        cs \in BOOLEAN}
    \cup {[keywords |-> kws] : kws \in ListsOf({<<"a">>, <<"B">>})}
    \cup {[prohibited_keywords |-> pro] : pro \in ListsOf({<<"c">>, <<"a", "B">>})}

\* the texts a keyword rule is evaluated on
KeywordTexts ==
    {<<>>, <<"a">>, <<"b">>, <<"a", "b">>, <<"a", "B">>, <<"A", "b", "c">>, <<"C">>}

InitRule ==
    /\ \E cfg \in KeywordConfigs, text \in KeywordTexts :
          env = [rule |-> RuleConfig("K1", "keyword_check", cfg, <<1, 1>>, TRUE),
                 text |-> text]
    /\ config = None
    /\ rule_cache = [k \in {} |-> k]
    /\ query_history = [q \in {} |-> q]
    /\ audit_logs = <<>>
    /\ ret = Returned("init", <<>>, "", FALSE, None, None, <<>>, <<>>)
    /\ calls = <<>>

\* DetectionRuleFactory.create_rule, then the rule's evaluate
EvaluateRuleCall(rc, text) ==
    /\ ret.op = "init"
    /\ \E rule \in {CreateRule(rc)} :
          ret' = Returned("evaluate", text, "", FALSE, None, None, <<>>,
                          EvaluateRule(rule, text))
    /\ UNCHANGED <<config, rule_cache, query_history, audit_logs, env, calls>>

NextRule == EvaluateRuleCall(env.rule, env.text)

SpecRule == InitRule /\ [][NextRule]_vars

-----------------------------------------------------------------------------
(* A composite rule on its own: built by the factory from a configuration,  *)
(* or assembled with add_sub_rule, then evaluated on a text                  *)

\* the largest number of entries of the rules list of a composite rule
MaxSubRules == 2

\* the rule configurations a composite rule lists
SubRuleConfigs ==
    {Prohibits("S1", <<"a">>, <<1, 1>>), Requires("S2", <<"b">>, <<1, 2>>),
     Regex("S3", <<"(">>, TRUE)}

\* the config mappings of a composite rule: with each operator and without
CompositeConfigs ==
    {[rules |-> rules, operator |-> operator] :
        rules \in UNION {[1..n -> SubRuleConfigs] : n \in 0..MaxSubRules},
        operator \in {"AND", "OR"}}
    \cup {[rules |-> rules] :
            rules \in UNION {[1..n -> SubRuleConfigs] : n \in 0..MaxSubRules}}

InitComposite ==
    /\ \E cfg \in CompositeConfigs, text \in {<<>>, <<"a">>, <<"b">>, <<"a", "b">>} :
          env = [rule |-> RuleConfig("K1", "composite", cfg, <<1, 1>>, TRUE), text |-> text]
    /\ config = None
    /\ rule_cache = [k \in {} |-> k]
    /\ query_history = [q \in {} |-> q]
    /\ audit_logs = <<>>
    /\ ret = Returned("init", <<>>, "", FALSE, None, None, <<>>, <<>>)
    /\ calls = <<>>

\* CompositeDetectionRule.add_sub_rule, called with the rule of each listed
\* configuration
AddSubRules(rule) ==
    [rule EXCEPT !.sub_rules = [i \in 1..Len(rule.rules) |-> CreateRule(rule.rules[i])]]

\* a composite rule assembled by hand (constructor, add_sub_rule for every
\* listed rule), then evaluate
EvaluateAssembledCall(rc, text) ==
    /\ ret.op = "init"
    /\ \E rule \in {AddSubRules(CompositeRule(rc))} :
          ret' = Returned("evaluate_assembled", text, "", FALSE, None, None, <<>>,
                          EvaluateRule(rule, text))
    /\ UNCHANGED <<config, rule_cache, query_history, audit_logs, env, calls>>

NextComposite ==
    \/ EvaluateRuleCall(env.rule, env.text)
    \/ EvaluateAssembledCall(env.rule, env.text)

SpecComposite == InitComposite /\ [][NextComposite]_vars

-----------------------------------------------------------------------------
(* Concurrent calls on one engine: the code takes no lock, so a call of one  *)
(* thread is a sequence of steps between which the other thread and          *)
(* load_constitution can run. A step ends where the code next reads or       *)
(* writes config, query_history or audit_logs                                *)

Threads == {"t1", "t2"}

\* the largest number of check calls, finished or in flight, of a run
MaxCalls == 2

\* a thread without a call in flight
Idle == [pc |-> "idle"]

InFlight == {t \in Threads : calls[t].pc # "idle"}

ConcurrentScenarios ==
    {[files |-> {DocScenario, DocOptional}, texts |-> {<<"a">>}],
     [files |-> {DocReject, DocEmpty}, texts |-> {<<"a">>}]}

InitConcurrent ==
    /\ env \in ConcurrentScenarios
    /\ config = None
    /\ rule_cache = [k \in {} |-> k]
    /\ query_history = [q \in {} |-> q]
    /\ audit_logs = <<>>
    /\ ret = Returned("init", <<>>, "", FALSE, None, None, <<>>, <<>>)
    /\ calls = [t \in Threads |-> Idle]

\* check_input up to the end of batch_evaluate: the configuration test, the
\* query id, get_clauses_with_pre_check on the document loaded now, and the
\* evaluation; doc records the document the call started with
StartInput(t, user_input, query_id_arg, uuid) ==
    /\ calls[t].pc = "idle"
    /\ IF config = None
       THEN /\ ret' = Raised("check_input", "", "config not loaded")
            /\ UNCHANGED <<config, rule_cache, query_history, audit_logs, env, calls>>
       ELSE \E batch \in {BatchEvaluate(rule_cache, GetClausesWithPreCheck(config[1]),
                                        user_input, "pre_check",
                                        [results |-> <<>>, evals |-> <<>>])} :
            /\ Len(audit_logs) + Cardinality(InFlight) < MaxCalls
            /\ rule_cache' = batch.cache
            /\ calls' = [calls EXCEPT ![t] =
                   [pc |-> "evaluated", op |-> "check_input", text |-> user_input,
                    query_id |-> IF IsSome(query_id_arg) THEN query_id_arg[1] ELSE uuid,
                    generated |-> ~IsSome(query_id_arg),
                    doc |-> config[1], results |-> batch.results, evals |-> batch.evals]]
            /\ UNCHANGED <<config, query_history, audit_logs, env, ret>>

\* check_input from _summarize_check_results to the creation of the result:
\* _make_enforcement_decision looks the clauses up in the document loaded now
DecideInput(t) ==
    /\ calls[t].pc = "evaluated"
    /\ calls[t].op = "check_input"
    /\ \E decision \in {MakeEnforcementDecision(config[1], calls[t].results)} :
          calls' = [calls EXCEPT ![t] =
              [pc |-> "decided", op |-> "check_input", text |-> calls[t].text,
               query_id |-> calls[t].query_id, generated |-> calls[t].generated,
               doc |-> calls[t].doc, results |-> calls[t].results,
               evals |-> calls[t].evals, decision |-> decision,
               result |-> InputResult(calls[t].query_id,
                                      SummarizeCheckResults(calls[t].results, "pre_check"),
                                      calls[t].results, decision)]]
    /\ UNCHANGED <<config, rule_cache, query_history, audit_logs, env, ret>>

\* check_input: _log_audit
LogInput(t) ==
    /\ calls[t].pc = "decided"
    /\ audit_logs' = Append(audit_logs,
           AuditEntry(calls[t].query_id, "pre_check", calls[t].text, calls[t].result,
                      Some(calls[t].decision.audit_info)))
    /\ calls' = [calls EXCEPT ![t].pc = "logged"]
    /\ UNCHANGED <<config, rule_cache, query_history, env, ret>>

\* check_input: the store into query_history, and the return
StoreInput(t) ==
    /\ calls[t].pc = "logged"
    /\ query_history' = (calls[t].query_id :> calls[t].result) @@ query_history
    /\ ret' = Returned("check_input", calls[t].text, calls[t].query_id, calls[t].generated,
                       Some(calls[t].result), Some(calls[t].decision), calls[t].evals, <<>>)
    /\ calls' = [calls EXCEPT ![t] = Idle]
    /\ UNCHANGED <<config, rule_cache, audit_logs, env>>

\* check_output up to the end of batch_evaluate
StartOutput(t, ai_output, query_id) ==
    /\ calls[t].pc = "idle"
    /\ IF config = None
       THEN /\ ret' = Raised("check_output", query_id, "config not loaded")
            /\ UNCHANGED <<config, rule_cache, query_history, audit_logs, env, calls>>
       ELSE IF query_id \notin DOMAIN query_history
       THEN /\ ret' = Raised("check_output", query_id, "query id not found")
            /\ UNCHANGED <<config, rule_cache, query_history, audit_logs, env, calls>>
       ELSE \E batch \in {BatchEvaluate(rule_cache, GetClausesWithPostCheck(config[1]),
                                        ai_output, "post_check",
                                        [results |-> <<>>, evals |-> <<>>])} :
            /\ Len(audit_logs) + Cardinality(InFlight) < MaxCalls
            /\ rule_cache' = batch.cache
            /\ calls' = [calls EXCEPT ![t] =
                   [pc |-> "evaluated", op |-> "check_output", text |-> ai_output,
                    query_id |-> query_id, generated |-> FALSE,
                    doc |-> config[1], results |-> batch.results, evals |-> batch.evals]]
            /\ UNCHANGED <<config, query_history, audit_logs, env, ret>>

\* check_output from _summarize_check_results to the creation of the result:
\* it reads the stored result of the query and, in _generate_corrections,
\* the document loaded now
BuildOutput(t) ==
    /\ calls[t].pc = "evaluated"
    /\ calls[t].op = "check_output"
    /\ calls' = [calls EXCEPT ![t] =
           [pc |-> "built", op |-> "check_output", text |-> calls[t].text,
            query_id |-> calls[t].query_id, generated |-> FALSE,
            doc |-> calls[t].doc, results |-> calls[t].results, evals |-> calls[t].evals,
            result |-> OutputResult(config[1], calls[t].query_id,
                                    query_history[calls[t].query_id],
                                    SummarizeCheckResults(calls[t].results, "post_check"),
                                    calls[t].results)]]
    /\ UNCHANGED <<config, rule_cache, query_history, audit_logs, env, ret>>

\* check_output: the store into query_history
StoreOutput(t) ==
    /\ calls[t].pc = "built"
    /\ query_history' = (calls[t].query_id :> calls[t].result) @@ query_history
    /\ calls' = [calls EXCEPT ![t].pc = "stored"]
    /\ UNCHANGED <<config, rule_cache, audit_logs, env, ret>>

\* check_output: _log_audit, and the return
LogOutput(t) ==
    /\ calls[t].pc = "stored"
    /\ audit_logs' = Append(audit_logs,
           AuditEntry(calls[t].query_id, "post_check", calls[t].text, calls[t].result, None))
    /\ ret' = Returned("check_output", calls[t].text, calls[t].query_id, FALSE,
                       Some(calls[t].result), None, calls[t].evals, <<>>)
    /\ calls' = [calls EXCEPT ![t] = Idle]
    /\ UNCHANGED <<config, rule_cache, query_history, env>>

NextConcurrent ==
    \/ \E doc \in env.files : LoadConstitution(doc)
    \/ \E t \in Threads, text \in env.texts, arg \in IdArgs, uuid \in GeneratedIds :
          StartInput(t, text, arg, uuid)
    \/ \E t \in Threads : DecideInput(t)
    \/ \E t \in Threads : LogInput(t)
    \/ \E t \in Threads : StoreInput(t)
    \/ \E t \in Threads, text \in env.texts, q \in QueryIds : StartOutput(t, text, q)
    \/ \E t \in Threads : BuildOutput(t)
    \/ \E t \in Threads : StoreOutput(t)
    \/ \E t \in Threads : LogOutput(t)

SpecConcurrent == InitConcurrent /\ [][NextConcurrent]_vars

-----------------------------------------------------------------------------
(* Properties of check_input and check_output *)

\* the last call was a check_input that returned
InputReturned == ret.op = "check_input" /\ ~ret.raised

\* the last call was a check_output that returned
OutputReturned == ret.op = "check_output" /\ ~ret.raised

\* C1, as stated: a check_output with a query id that is not a key of the
\* query store fails with the not-found error and leaves the query store and
\* the audit log unchanged
C1_UnknownIdRaisesNotFound ==
    [][\A text \in env.texts, q \in QueryIds :
          (CheckOutput(text, q) /\ q \notin DOMAIN query_history)
          => /\ ret'.raised
             /\ ret'.error = "query id not found"
             /\ query_history' = query_history
             /\ audit_logs' = audit_logs]_vars

\* C1, amended: a check_output with a query id that is not a key of the query
\* store fails and leaves the query store and the audit log unchanged; the
\* error is the not-found error when a constitution is loaded, and the
\* constitution-not-loaded error (checked first) when none is
C1_UnknownIdFailsWithoutEffect ==
    [][\A text \in env.texts, q \in QueryIds :
          (CheckOutput(text, q) /\ q \notin DOMAIN query_history)
          => /\ ret'.raised
             /\ ret'.op = "check_output"
             /\ ret'.error = IF config = None THEN "config not loaded"
                             ELSE "query id not found"
             /\ query_history' = query_history
             /\ audit_logs' = audit_logs]_vars

\* a check_output on an unknown id has failed with the not-found error while
\* the store and the log hold another query
C1_Witness ==
    /\ ret.op = "check_output"
    /\ ret.raised
    /\ ret.error = "query id not found"
    /\ ret.query_id \notin DOMAIN query_history
    /\ DOMAIN query_history # {}
    /\ audit_logs # <<>>

\* the evaluate_clause calls of the last batch whose clause is required and
\* whose result suggests reject
QualifyingEvals ==
    {i \in 1..Len(ret.evals) :
        /\ ret.evals[i].clause.enforcement.level = "required"
        /\ "reject" \in Range(ret.evals[i].result.suggested_actions)}

FirstQualifying == ret.evals[CHOOSE i \in QualifyingEvals : \A j \in QualifyingEvals : i <= j]

\* C2: check_input returns should_proceed = false iff some evaluated pre-check
\* clause of level required has reject among its suggested actions, and the
\* rejecting clause of the decision (audit_info.rejected_clause, the clause
\* of the safe response) is the first such clause in document order
C2_RejectIffRequiredClauseRejects ==
    InputReturned =>
        LET decision == ret.decision[1] IN
        /\ ~decision.should_proceed <=> QualifyingEvals # {}
        /\ QualifyingEvals # {} =>
              /\ IsSome(decision.audit_info)
              /\ decision.audit_info[1].rejected_clause = FirstQualifying.clause.id
              /\ decision.safe_response = Some(GenerateSafeResponse(FirstQualifying.clause))

\* the reject message configured for a clause, or the generic refusal that
\* names the clause
RefusalOf(clause) ==
    LET HasMessage(ac) == ac.action = "reject" /\ ac.message # <<>>
        with_message == SelectSeq(clause.enforcement.violation_actions, HasMessage)
    IN IF with_message # <<>> THEN Head(with_message).message
       ELSE <<"sorry, because of ", clause.name, " I cannot handle this">>

\* C3: the decision of check_input has a safe_response iff should_proceed is
\* false, and a safe_response is a non-empty string that starts with the
\* rejecting clause's configured reject message, or with the generic refusal
\* naming the clause when no message is configured
C3_SafeResponseIffRejected ==
    [][\A text \in env.texts, arg \in IdArgs, uuid \in GeneratedIds :
          (CheckInput(text, arg, uuid) /\ ~ret'.raised)
          => LET decision == ret'.decision[1] IN
             /\ IsSome(decision.safe_response) <=> ~decision.should_proceed
             /\ IsSome(decision.safe_response) =>
                   /\ decision.safe_response[1] # <<>>
                   /\ \E i \in 1..Len(config[1].clauses) :
                         /\ config[1].clauses[i].id = decision.audit_info[1].rejected_clause
                         /\ IsPrefix(RefusalOf(config[1].clauses[i]),
                                     decision.safe_response[1])]_vars

\* a check_input was rejected by a clause without a reject message: the safe
\* response is the generic refusal
C3_Witness ==
    /\ InputReturned
    /\ ~ret.decision[1].should_proceed
    /\ IsSome(ret.decision[1].safe_response)
    /\ Head(ret.decision[1].safe_response[1]) = "sorry, because of "

\* C4: once the stored result of a query is rejected (should_proceed false)
\* no later operation on that query moves it out of the rejected state; only
\* a new check_input that reuses the id starts the query over
C4_RejectedIsFinal ==
    [][\A q \in DOMAIN query_history :
          ~query_history[q].should_proceed
          => /\ q \in DOMAIN query_history'
             /\ \/ ~query_history'[q].should_proceed
                \/ /\ ret'.op = "check_input"
                   /\ ret'.query_id = q
                   /\ Len(audit_logs') = Len(audit_logs) + 1
                   /\ audit_logs'[Len(audit_logs')].check_type = "pre_check"]_vars

\* C5: a check_output that returns gives should_proceed = true and
\* requires_correction = not (every evaluated post-check clause result
\* passed), whatever the pre-check decided, and stores that result
C5_PostCheckNeverBlocks ==
    OutputReturned =>
        LET result == ret.result[1] IN
        /\ result.should_proceed
        /\ result.requires_correction
              = ~(\A i \in 1..Len(ret.evals) : ret.evals[i].result.overall_passed)
        /\ query_history[ret.query_id].post_check = result.post_check

\* C6: after every step each stored result with a post_check has
\* overall_score = (pre_check.score + post_check.score) / 2, also after a
\* repeated check_output on the same id, and a check_output leaves the
\* stored pre_check summary as it was
C6_ScoreIsMeanOfPreAndPost ==
    [][/\ \A q \in DOMAIN query_history' :
             IsSome(query_history'[q].post_check)
             => query_history'[q].overall_score
                    = RDivInt(RAdd(query_history'[q].pre_check[1].score,
                                   query_history'[q].post_check[1].score), 2)
       /\ \A text \in env.texts, q \in DOMAIN query_history :
             CheckOutput(text, q)
             => query_history'[q].pre_check = query_history[q].pre_check]_vars

\* the mean of the scores of the last batch's evaluate_clause results
MeanEvalScore ==
    IF ret.evals = <<>> THEN <<1, 1>>
    ELSE RDivInt(RSum([i \in 1..Len(ret.evals) |-> ret.evals[i].result.score]),
                 Len(ret.evals))

\* C7: the result that check_input returns and stores has overall_passed
\* true iff every evaluated pre-check clause result passed, and overall_score
\* equal to the mean of the evaluated clause scores (1 when there is none)
C7_InputResultSummarizesClauses ==
    InputReturned =>
        LET result == ret.result[1] IN
        /\ result.overall_passed
              <=> \A i \in 1..Len(ret.evals) : ret.evals[i].result.overall_passed
        /\ result.overall_score = MeanEvalScore
        /\ query_history[ret.query_id] = result

Severity(violation_level) ==
    CASE violation_level = "high" -> 3
      [] violation_level = "medium" -> 2
      [] violation_level = "low" -> 1
      [] OTHER -> 0

\* the evaluate_clause calls of the last batch with the most severe level
MostSevereEvals ==
    {i \in 1..Len(ret.evals) :
        \A j \in 1..Len(ret.evals) :
            Severity(ret.evals[j].result.violation_level)
                <= Severity(ret.evals[i].result.violation_level)}

\* C8: highest_risk_clause of a check_input or check_output result is the
\* first evaluated clause with the most severe non-none violation level, it
\* is absent only when every clause has level none, and when
\* highest_risk_level is not none it names a clause of that level
C8_HighestRiskClauseIsMostSevere ==
    (InputReturned \/ OutputReturned) =>
        LET result == ret.result[1]
            none_only == \A i \in 1..Len(ret.evals) :
                             ret.evals[i].result.violation_level = "none"
        IN /\ ~IsSome(result.highest_risk_clause) <=> none_only
           /\ ~none_only =>
                 LET first == ret.evals[CHOOSE i \in MostSevereEvals :
                                           \A j \in MostSevereEvals : i <= j]
                 IN result.highest_risk_clause = Some(first.clause.id)
           /\ result.highest_risk_level # "none" =>
                 \E i \in 1..Len(ret.evals) :
                    /\ result.highest_risk_clause = Some(ret.evals[i].clause.id)
                    /\ ret.evals[i].result.violation_level = result.highest_risk_level

-----------------------------------------------------------------------------
(* Properties of evaluate_clause and apply_constitutional_corrections *)

\* the last call was an evaluate_clause of a clause that is evaluated at the
\* checkpoint and has an enabled rule
ClauseEvaluated ==
    /\ ret.op = "evaluate_clause"
    /\ LET clause == ret.evals[1].clause
           EnabledRule(rc) == rc.enabled
       IN /\ ret.query_id = "pre_check" => clause.enforcement.pre_check
          /\ ret.query_id = "post_check" => clause.enforcement.post_check
          /\ SelectSeq(clause.detection_rules, EnabledRule) # <<>>

\* the rule results of the last evaluate_clause that failed
FailedDetails ==
    {i \in 1..Len(ret.evals[1].result.details) : ~ret.evals[1].result.details[i].passed}

\* what a fresh evaluator returns for the last evaluate_clause call when the
\* clause has the given enforcement level and is otherwise the same
ResultUnder(level) ==
    EvaluateClause([k \in {} |-> k],
                   [ret.evals[1].clause EXCEPT !.enforcement.level = level],
                   ret.input, ret.query_id).result

\* C9: evaluate_clause on a clause evaluated at the checkpoint with an
\* enabled rule: a required clause passes iff no rule failed, a recommended
\* clause iff at least 70% of the evaluated rules passed, an optional clause
\* always; so one failing rule fails a required and passes an optional clause
C9_OverallPassedByLevel ==
    ClauseEvaluated =>
        LET clause == ret.evals[1].clause
            result == ret.evals[1].result
            total == Len(result.details)
            failed == Cardinality(FailedDetails)
            EnabledRule(rc) == rc.enabled
        IN /\ total = Len(SelectSeq(clause.detection_rules, EnabledRule))
           /\ clause.enforcement.level = "required"
                 => (result.overall_passed <=> failed = 0)
           /\ clause.enforcement.level = "recommended"
                 => (result.overall_passed <=> 100 * (total - failed) >= 70 * total)
           /\ clause.enforcement.level = "optional" => result.overall_passed
           /\ failed = 1 =>
                 /\ ~ResultUnder("required").overall_passed
                 /\ ResultUnder("optional").overall_passed

\* a recommended clause passed with exactly 70% of its ten rules passing
C9_Witness ==
    /\ ClauseEvaluated
    /\ ret.evals[1].clause.enforcement.level = "recommended"
    /\ Len(ret.evals[1].result.details) = 10
    /\ Cardinality(FailedDetails) = 3
    /\ ret.evals[1].result.overall_passed

\* C10: the text that apply_constitutional_corrections returns has the input
\* text as a prefix, and equals the input text when the check result does
\* not require correction
C10_CorrectionsOnlyAppend ==
    ret.op = "apply_corrections" =>
        /\ IsPrefix(ret.input, ret.output)
        /\ ~ret.result[1].requires_correction => ret.output = ret.input

\* a correction has appended a disclaimer to a non-empty text
C10_Witness ==
    /\ ret.op = "apply_corrections"
    /\ ret.result[1].requires_correction
    /\ ret.input # <<>>
    /\ Len(ret.output) > Len(ret.input)

\* C11: apply_constitutional_corrections is idempotent: applied to its own
\* output with the same check result it returns that output unchanged
C11_CorrectionsIdempotent ==
    [][\A text \in env.texts :
          ApplyCorrections(text)
          => ApplyConstitutionalCorrections(config[1], ret'.output, ret'.result[1])
                 = ret'.output]_vars

\* a correction has appended text, and correcting its output again with the
\* loaded document changes nothing
C11_Witness ==
    /\ ret.op = "apply_corrections"
    /\ ret.output # ret.input
    /\ config # None
    /\ ApplyConstitutionalCorrections(config[1], ret.output, ret.result[1]) = ret.output

\* the clause results of the post-check of a check result, in dict order
PostDetails(check_result) ==
    IF IsSome(check_result.post_check) THEN check_result.post_check[1].details_by_clause
    ELSE <<>>

\* the text with the disclaimers of the failed clauses appended: for each
\* clause result in order that did not pass, whose clause has a disclaimer
\* that is not yet in the text
RECURSIVE WithDisclaimersOfFailed(_, _, _)
WithDisclaimersOfFailed(cfg, text, entries) ==
    IF entries = <<>> THEN text
    ELSE LET clause == GetClauseById(cfg, Head(entries).key) IN
         WithDisclaimersOfFailed(cfg,
             IF /\ ~Head(entries).value.overall_passed
                /\ IsSome(clause)
                /\ clause[1].required_disclaimer # <<>>
                /\ ~Contains(text, clause[1].required_disclaimer)
             THEN text \o <<"\n", "\n">> \o clause[1].required_disclaimer
             ELSE text,
             Tail(entries))

\* C12: with requires_correction true, apply_constitutional_corrections
\* appends the required_disclaimer of exactly the clauses that failed the
\* post-check, have a disclaimer and whose disclaimer is not in the text; the
\* disclaimer of a clause that passed is never appended
C12_DisclaimersOfFailedClausesOnly ==
    [][\A text \in env.texts :
          (ApplyCorrections(text) /\ ret.result[1].requires_correction)
          => ret'.output = WithDisclaimersOfFailed(config[1], text,
                                                   PostDetails(ret.result[1]))]_vars

-----------------------------------------------------------------------------
(* Properties of the audit log *)

\* the step is a check_input that returned
InputSucceeds ==
    /\ ret'.op = "check_input"
    /\ ~ret'.raised
    /\ \E text \in env.texts, arg \in IdArgs, uuid \in GeneratedIds :
          CheckInput(text, arg, uuid)

\* the step is a check_output that returned
OutputSucceeds ==
    /\ ret'.op = "check_output"
    /\ ~ret'.raised
    /\ \E text \in env.texts, q \in QueryIds : CheckOutput(text, q)

\* the step appends one record of the check type for the call's query id and
\* leaves the earlier records as they were
AppendsOne(check_type) ==
    /\ Len(audit_logs') = Len(audit_logs) + 1
    /\ SubSeq(audit_logs', 1, Len(audit_logs)) = audit_logs
    /\ audit_logs'[Len(audit_logs')].check_type = check_type
    /\ audit_logs'[Len(audit_logs')].query_id = ret'.query_id

\* C13: a check_input that returns appends exactly one pre_check record and a
\* check_output that returns exactly one post_check record, with the call's
\* query id; every other step (failed calls, load, corrections,
\* get_audit_summary, get_constitution_stats) leaves the log as it is, so
\* the earlier log is always a prefix of the later one
C13_AuditLogAppendOnly ==
    [][/\ IsPrefix(audit_logs, audit_logs')
       /\ audit_logs' # audit_logs
          => \/ InputSucceeds /\ AppendsOne("pre_check")
             \/ OutputSucceeds /\ AppendsOne("post_check")
       /\ audit_logs' = audit_logs => ~(InputSucceeds \/ OutputSucceeds)]_vars

\* the log holds the pre_check and the post_check record of a query, a failed
\* check_output or a query of the log came later, and the log is still there
C13_Witness ==
    /\ Len(audit_logs) >= 2
    /\ audit_logs[1].check_type = "pre_check"
    /\ audit_logs[2].check_type = "post_check"
    /\ audit_logs[2].query_id = audit_logs[1].query_id
    /\ ret.op = "get_audit_summary"
    /\ ret.input = 1

\* C14: the text_preview of every audit record has at most 100 characters
C14_TextPreviewAtMost100 ==
    \A i \in 1..Len(audit_logs) : Len(audit_logs[i].text_preview) <= 100

\* C15: get_audit_summary(limit) returns the last min(limit, n) records of
\* the n records of the log, in append order
C15_RecentReturnsLastRecords ==
    ret.op = "get_audit_summary" =>
        LET n == Len(audit_logs)
            k == IF ret.input < n THEN ret.input ELSE n
        IN ret.output = SubSeq(audit_logs, n - k + 1, n)

-----------------------------------------------------------------------------
(* Properties of query ids *)

\* C17: the query id that check_input generates when the caller gives none
\* is not yet a key of the query store, so the call leaves every stored
\* result of an earlier query as it was
C17_GeneratedIdIsFresh ==
    [][\A text \in env.texts, uuid \in GeneratedIds :
          (CheckInput(text, None, uuid) /\ ~ret'.raised)
          => /\ ret'.query_id \notin DOMAIN query_history
             /\ \A q \in DOMAIN query_history :
                   query_history'[q] = query_history[q]]_vars

-----------------------------------------------------------------------------
(* Properties of the parser *)

\* C16: the configuration a load has produced has no two clauses with the
\* same id
C16_LoadedClauseIdsUnique ==
    config # None
    => \A i, j \in 1..Len(config[1].clauses) :
          config[1].clauses[i].id = config[1].clauses[j].id => i = j

\* C18: loading the file that save_to_file wrote from the loaded configuration
\* succeeds and yields a configuration equal to it
C18_SaveThenLoadIsIdentity ==
    [][(/\ config # None
        /\ env.file # None
        /\ env.file[1] = SaveToData(config[1])
        /\ LoadFromFile)
       => (~ret'.raised /\ config' = config)]_vars

-----------------------------------------------------------------------------
(* Properties of the keyword rule *)

\* the configuration of the evaluated keyword rule, with the defaults
KeywordsOf(key) == Get(env.rule.config, key, <<>>)

\* the text contains the keyword, both lower-cased unless the rule is case
\* sensitive
TextHas(keyword) ==
    IF Get(env.rule.config, "case_sensitive", FALSE)
    THEN Contains(env.text, keyword)
    ELSE Contains(Lower(env.text), Lower(keyword))

ProhibitedFound ==
    \E i \in DOMAIN KeywordsOf("prohibited_keywords") :
        TextHas(KeywordsOf("prohibited_keywords")[i])

NumberFound ==
    Cardinality({i \in DOMAIN KeywordsOf("keywords") : TextHas(KeywordsOf("keywords")[i])})

\* what the match mode asks of the configured keywords
ModeSatisfied ==
    LET mode == Get(env.rule.config, "match_mode", "any") IN
    \/ mode = "any" /\ NumberFound >= Get(env.rule.config, "required_count", 1)
    \/ mode = "all" /\ \A i \in DOMAIN KeywordsOf("keywords") : TextHas(KeywordsOf("keywords")[i])
    \/ mode = "none" /\ NumberFound = 0

\* C19: evaluating a keyword rule returns a result and raises nothing; the
\* result fails when the text contains a prohibited keyword, whatever the
\* match mode, the required count and the keywords found; otherwise it passes
\* exactly when the match mode (any, all, none) is satisfied, so that an
\* unknown match mode fails
C19_KeywordRuleVerdict ==
    ret.op = "evaluate"
    => /\ ~ret.raised
       /\ ProhibitedFound => ~ret.output.passed
       /\ ~ProhibitedFound => (ret.output.passed <=> ModeSatisfied)

\* a rule whose match mode is satisfied has failed on a prohibited keyword
C19_Witness ==
    /\ ret.op = "evaluate"
    /\ ProhibitedFound
    /\ ModeSatisfied
    /\ NumberFound > 0
    /\ ~ret.output.passed

-----------------------------------------------------------------------------
(* Properties of regex rules *)

\* an enabled regex rule whose pattern does not compile
BadRegex(rc) ==
    rc.rule_type = "regex_check" /\ rc.enabled /\ ~Compiles(Get(rc.config, "pattern", <<>>))

HoldsBadRegex(clause) ==
    \E i \in DOMAIN clause.detection_rules : BadRegex(clause.detection_rules[i])

\* the clause as it is in the document without the bad rules
WithoutBadRegex(clause) ==
    LET Good(rc) == ~BadRegex(rc)
    IN [clause EXCEPT !.detection_rules = SelectSeq(@, Good)]

\* the evaluations the pre-check would make if the bad rules were not in the
\* document
EvalsWithoutBadRegex(text) ==
    LET clauses == GetClausesWithPreCheck(config[1])
    IN BatchEvaluate(rule_cache, [i \in 1..Len(clauses) |-> WithoutBadRegex(clauses[i])],
                     text, "pre_check", [results |-> <<>>, evals |-> <<>>]).evals

\* C20: a check_input on a loaded document returns; the result of every bad
\* regex rule is a failure with the configuration-error message, the clause
\* holding it has a violation level other than none, and every other clause
\* has the result it would have without the bad rules in the document
C20_BadRegexIsContained ==
    [][\A text \in env.texts, arg \in IdArgs, uuid \in GeneratedIds :
          (config # None /\ CheckInput(text, arg, uuid))
          => /\ ~ret'.raised
             /\ \A i \in 1..Len(ret'.evals) :
                   IF HoldsBadRegex(ret'.evals[i].clause)
                   THEN /\ ret'.evals[i].result.violation_level # "none"
                        /\ \A k \in 1..Len(ret'.evals[i].clause.detection_rules) :
                              BadRegex(ret'.evals[i].clause.detection_rules[k])
                              => \E d \in Range(ret'.evals[i].result.details) :
                                    /\ d.rule_id = ret'.evals[i].clause.detection_rules[k].rule_id
                                    /\ ~d.passed
                                    /\ d.message = "regex configuration error"
                   ELSE ret'.evals[i].result = EvalsWithoutBadRegex(text)[i].result]_vars

-----------------------------------------------------------------------------
(* Properties of composite rules *)

\* the configured sub-rule, evaluated on the text of the call, passes
SubRulePasses(i) == EvaluateRule(CreateRule(env.rule.config.rules[i]), env.text).passed

\* what the operator asks of the configured sub-rules
OperatorSatisfied ==
    IF Get(env.rule.config, "operator", "AND") = "OR"
    THEN env.rule.config.rules = <<>> \/ \E i \in DOMAIN env.rule.config.rules : SubRulePasses(i)
    ELSE \A i \in DOMAIN env.rule.config.rules : SubRulePasses(i)

\* C21: a composite rule built by the factory from its configuration passes
\* exactly when its operator is satisfied by the configured sub-rules on the
\* same text: all of them for AND, at least one for OR, and always without
\* sub-rules
C21_CompositeFromConfigFollowsOperator ==
    ret.op = "evaluate" => (ret.output.passed <=> OperatorSatisfied)

-----------------------------------------------------------------------------
(* Properties of errors during evaluation *)

\* C22: with a document loaded, check_input returns a result that has a
\* clause result for every pre-check clause, and check_output, called with
\* the id of a stored query, returns a result that has one for every
\* post-check clause: neither raises
C22_ChecksReturnDespiteRuleErrors ==
    [][/\ \A text \in env.texts, arg \in IdArgs, uuid \in GeneratedIds :
             (config # None /\ CheckInput(text, arg, uuid))
             => /\ ~ret'.raised
                /\ Len(ret'.evals) = Len(GetClausesWithPreCheck(config[1]))
       /\ \A text \in env.texts, q \in QueryIds :
             (config # None /\ q \in DOMAIN query_history /\ CheckOutput(text, q))
             => /\ ~ret'.raised
                /\ Len(ret'.evals) = Len(GetClausesWithPostCheck(config[1]))]_vars

-----------------------------------------------------------------------------
(* Properties of a clause result *)

\* C25: the violation level of a clause result is none iff no rule result
\* failed; otherwise, with the ratio of failed to evaluated rules, a required
\* clause has high from 50%, medium from 30% and low below, a recommended
\* clause medium from 70% and low below, an optional clause low
C25_ViolationLevelByFailureRatio ==
    ret.op = "evaluate_clause" =>
        LET level == ret.evals[1].clause.enforcement.level
            result == ret.evals[1].result
            total == Len(result.details)
            failed == Cardinality(FailedDetails)
        IN /\ result.violation_level = "none" <=> failed = 0
           /\ (failed > 0 /\ level = "required") =>
                 /\ result.violation_level = "high" <=> 10 * failed >= 5 * total
                 /\ result.violation_level = "medium"
                        <=> (10 * failed >= 3 * total /\ 10 * failed < 5 * total)
                 /\ result.violation_level = "low" <=> 10 * failed < 3 * total
           /\ (failed > 0 /\ level = "recommended") =>
                 /\ result.violation_level = "medium" <=> 10 * failed >= 7 * total
                 /\ result.violation_level = "low" <=> 10 * failed < 7 * total
           /\ (failed > 0 /\ level = "optional") => result.violation_level = "low"

\* a required clause with three failures among ten rules (ratio 0.3 exactly)
\* has the level medium
C25_Witness ==
    /\ ClauseEvaluated
    /\ ret.evals[1].clause.enforcement.level = "required"
    /\ Len(ret.evals[1].result.details) = 10
    /\ Cardinality(FailedDetails) = 3
    /\ ret.evals[1].result.violation_level = "medium"

\* the action kinds a violation level allows
Whitelist(violation_level) ==
    CASE violation_level = "high" -> {"reject", "log_audit"}
      [] violation_level = "medium" -> {"warn", "append_warning", "log_audit"}
      [] violation_level = "low" -> {"append_warning", "suggest_tool"}
      [] OTHER -> {}

\* the configured actions of the clause whose kind the level allows, in the
\* configured order
WhitelistedActions(clause, violation_level) ==
    LET Allowed(ac) == ac.action \in Whitelist(violation_level)
        kept == SelectSeq(clause.enforcement.violation_actions, Allowed)
    IN [i \in 1..Len(kept) |-> kept[i].action]

\* C26: the suggested actions of a clause result with a violation level other
\* than none are the configured actions whose kind is in the whitelist of
\* that level, in the configured order, whether the clause passed or not
C26_SuggestedActionsByWhitelist ==
    (ret.op = "evaluate_clause" /\ ret.evals[1].result.violation_level # "none")
    => ret.evals[1].result.suggested_actions
           = WhitelistedActions(ret.evals[1].clause, ret.evals[1].result.violation_level)

\* C27: the score of the result of an evaluated clause with an enabled rule
\* is the sum of the scores of all its rule results divided by the number of
\* enabled rules; a clause skipped at the checkpoint or without an enabled
\* rule has the score 1, passes, and has the level none and no action
C27_ScoreIsMeanOfRuleScores ==
    ret.op = "evaluate_clause" =>
        LET clause == ret.evals[1].clause
            result == ret.evals[1].result
            EnabledRule(rc) == rc.enabled
            enabled == Len(SelectSeq(clause.detection_rules, EnabledRule))
            total == RSum([i \in 1..Len(result.details) |-> result.details[i].score])
        IN IF ClauseEvaluated
           THEN /\ Len(result.details) = enabled
                /\ result.score[1] * total[2] * enabled = total[1] * result.score[2]
           ELSE /\ result.score[1] = result.score[2]
                /\ result.overall_passed
                /\ result.violation_level = "none"
                /\ result.suggested_actions = <<>>

\* a clause with a failed rule, a passed rule of weight 1 and one of weight
\* 1/2 has the score 1/2
C27_Witness ==
    /\ ClauseEvaluated
    /\ Len(ret.evals[1].result.details) = 3
    /\ Cardinality(FailedDetails) = 1
    /\ ret.evals[1].result.score[1] * 2 = ret.evals[1].result.score[2]

-----------------------------------------------------------------------------
(* Properties of the rule cache *)

\* C28: every clause result of a check that returned is the result of
\* evaluating the clause with rules built from the configurations the clause
\* has in the loaded document (as an evaluator without cached rules does)
C28_RulesEvaluatedWithOwnConfig ==
    (InputReturned \/ OutputReturned)
    => \A i \in 1..Len(ret.evals) :
          ret.evals[i].result
              = EvaluateClause([k \in {} |-> k], ret.evals[i].clause, ret.input,
                               IF ret.op = "check_input" THEN "pre_check"
                               ELSE "post_check").result

-----------------------------------------------------------------------------
(* Properties of the audit log and the query store together *)

\* the log has a pre_check record of the query id among its first n records
HasPreCheck(query_id, n) ==
    \E j \in 1..n :
        audit_logs[j].check_type = "pre_check" /\ audit_logs[j].query_id = query_id

\* C29: in every reachable state each post_check record of the audit log
\* comes after a pre_check record with the same query id, and every key of
\* the query store has a pre_check record in the log
C29_PostCheckFollowsPreCheck ==
    /\ \A i \in 1..Len(audit_logs) :
          audit_logs[i].check_type = "post_check"
          => HasPreCheck(audit_logs[i].query_id, i - 1)
    /\ \A q \in DOMAIN query_history : HasPreCheck(q, Len(audit_logs))

\* the log holds the pre_check and the post_check record of a query, and a
\* check_output with an id that is not in the store has failed since
C29_Witness ==
    /\ Len(audit_logs) = 2
    /\ audit_logs[2].check_type = "post_check"
    /\ DOMAIN query_history = {audit_logs[2].query_id}
    /\ ret.op = "check_output"
    /\ ret.raised
    /\ ret.query_id \notin DOMAIN query_history

-----------------------------------------------------------------------------
(* Properties of a keyword rule with prohibited keywords only *)

-----------------------------------------------------------------------------
(* Properties of concurrent calls *)

\* C23: a check call in flight takes its decision and builds its result
\* against the document that was loaded when the call started, whatever
\* load_constitution does meanwhile
C23_CallUsesOneDocument ==
    [][\A t \in Threads :
          /\ DecideInput(t)
             => calls'[t].decision = MakeEnforcementDecision(calls[t].doc, calls[t].results)
          /\ BuildOutput(t)
             => calls'[t].result.correction_suggestions
                    = GenerateCorrections(calls[t].doc, calls[t].results)]_vars

\* C24: in every state that a concurrent call can see, each pre_check record
\* of the audit log has its query id in the query store, and each stored
\* result with a post_check summary has a post_check record in the log
C24_StoreAndLogChangeTogether ==
    /\ \A i \in 1..Len(audit_logs) :
          audit_logs[i].check_type = "pre_check"
          => audit_logs[i].query_id \in DOMAIN query_history
    /\ \A q \in DOMAIN query_history :
          query_history[q].post_check # None
          => \E i \in 1..Len(audit_logs) :
                audit_logs[i].check_type = "post_check" /\ audit_logs[i].query_id = q

====
